---------------------------- MODULE Spec2Model ----------------------------
(***************************************************************************)
(* Verification model of the MQNS quantum-network simulator.               *)
(*                                                                         *)
(* Part I  : the event pool (src/mqns/simulator/pool.py) with the event    *)
(*           ordering of src/qns/simulator/event.py and the binary heap of *)
(*           Python's heapq that the pool uses.                            *)
(* Part II : the proactive forwarder                                       *)
(*           (src/qns/network/protocol/proactive_routing.py) on a linear   *)
(*           path, with its FIB and the quantum memories it operates on.   *)
(***************************************************************************)
EXTENDS Integers, Sequences, FiniteSets, TLC

\* ------------------------------------------------------------------ bounds
\* Number of Event objects created in a run of the event pool.
MaxEvents == 4
\* End time slot te of the event pool (start slot is 0).
EndSlot == 1

VARIABLES
    \* ---- Part I: DefaultEventPool
    tc,             \* pool.tc: current time slot
    event_list,     \* pool.event_list: the heap array, a sequence of event ids
    events,         \* every Event created so far: id -> [t, canceled]
    accepted,       \* ids for which add_event returned True
    added,          \* return value of the last add_event call
    returned,       \* return value of the last next_event call (0 is None)
    popCount,       \* id -> number of times next_event returned it
    invoked,        \* ids whose invoke() was called by the run loop
    canceledPending, \* ids canceled while they were still in the heap
    \* ---- Part II: ProactiveRouting on a linear path
    route,          \* fib_entry["path_vector"]: the node names, in path order
    swap_sequence,  \* fib_entry["swap_sequence"]: the rank of each route node
    swapped_self,   \* node -> fib_entry["swapped_self"] of that node's FIB
    received_swaps, \* the received_swaps dict (add_entry's default argument)
    mem,            \* <<node, side>> -> [state, epr]: the qubit of that memory
    entangledEv,    \* pending QubitEntangledEvent: [node, side, neighbor]
    releasedEv,     \* pending QubitReleasedEvent / QubitDecoheredEvent
    negoc,          \* link -> the initiator has a negotiation pending
    avail,          \* link -> the receiver's qubit is free to be reserved
    msgs,           \* SWAP_UPDATE packets in flight, each at its next hop
    etg_count,      \* node -> LinkLayer.etg_count: EPRs this node initiated
    nDecohered,     \* number of decoherence timers that found their EPR
    crashed,        \* the exception that ended the run, or "" while it runs
    cnt,            \* node -> [n_eligible, n_consumed] at that node
    consumed,       \* EPRs consumed at end nodes: [node, epr]
    lastSwap,       \* the swap attempt made by the last step, or NoSwap
    lastSU,         \* the SWAP_UPDATE the last step handled at its destination
    failedInputs,   \* names of the EPRs destroyed by failed swaps
    \* ---- Part III: TimingModeSync and the simulator clock
    now,            \* simulator.tc, in units of 0.1 ms
    sequence,       \* timing.sequence: the deque of <<phase, duration>>
    phase,          \* timing.phase
    end_time,       \* timing.end_time (exclusive)
    waiting_etg,    \* node -> the QubitEntangledEvents kept for INTERNAL
    arrive,         \* SWAP_UPDATE packet in flight -> its arrival time
    \* ---- Part V: multiplexing schemes on the dumbbell
    scheme,         \* the MuxScheme of the forwarders
    provided,       \* the qchannels that received their elementary EPR
    etg_tmp,        \* qchannel -> tmp_path_ids of its elementary EPR object
    n_select,       \* qchannel -> calls of path_select_fn for its EPR
    qm,             \* <<node, qchannel>> -> [state, epr]: that memory qubit
    etgEv,          \* pending QubitEntangledEvent: [node, ch]
    su,             \* SWAP_UPDATE messages in flight
    parallel_swappings, \* node -> its swaps: [shared, other, my_new]
    swapLog,        \* tmp_path_ids of every successful swap and merge
    e2e,            \* EPRs consumed at end nodes: [node, epr]
    mux_failed,     \* the exception that ended the run, or ""
    \* ---- Part VI: wait-time cut-off
    cutoff,         \* <<node, side>> -> qubit.cutoff: [since, deadline]
    n_cutoff,       \* node -> cnt.n_swap_cutoff: [primary, secondary]
    cut_events,     \* the release events in the pool that are not canceled
    \* ---- Part VII: QuantumMemory
    storage,        \* idx -> [pid, epr, store_time]: _storage, _store_time
    usage,          \* memory._usage
    sim_tc,         \* simulator.tc, in time slots
    sim_events,     \* the decoherence events the simulator holds
    n_added,        \* calls of simulator.add_event by write
    last,           \* the last operation and what it returned
    mem_crashed,    \* the exception that ended the run, or ""
    \* ---- Part VIII: the phases of SYNC timing
    timing,         \* the configured durations [t_ext, t_rtg, t_int]
    signalled,      \* the last TimingPhaseEvent: [phase, t, nodes]
    \* ---- Part IX: LinkLayer on one quantum channel
    ll_now,         \* simulator.tc, in time slots
    ll_queue,       \* the event pool: events by time, then by insertion
    ll_mem,         \* end -> addr -> [pid, epr, active, known]: the qubits
    pending_negoc,  \* LinkLayer.pending_negoc of the initiator: its keys
    fifo_epr_init,  \* LinkLayer.fifo_epr_init of the receiver
    ll_n_epr,       \* EPRs created so far; the next one is named ll_n_epr + 1
    ll_crashed,     \* the exception that ended the run, or ""
    \* ---- Part X: the control plane of one node
    fib_table,      \* fib.table: path id -> [path_vector, swap_sequence]
    qubit_pid,      \* neighbour -> addr -> qubit.pid in that channel's memory
    ctl_last,       \* the last call and what it returned or raised
    \* ---- Part XI: the random number streams
    det_scenario,   \* the kind of stochastic choice of each popped event
    det_rng,        \* generator -> its state
    det_run,        \* the run in progress: 0 before the first, then 1, 2
    det_pos,        \* the position of the run in its scenario
    det_decisions,  \* run -> the values drawn so far, in order
    \* ---- Part XII: the FIB entries as objects
    fib_ref,        \* node -> path id -> the dict of its received_swaps
    dict_heap,      \* dict object -> the nodes it has as keys
    fib_sent,       \* the SWAP_UPDATE packets sent, with their results
    \* ---- Part XIII: the forwarder with several qubits per qchannel
    q_mem,          \* <<node, side, address>> -> the qubit's state and EPR
    q_swapped_self, \* node -> swapped_self of its FIB entry
    q_chan,         \* <<from, to>> -> the SWAP_UPDATE packets in flight
    q_ev,           \* QubitEntangledEvents not yet handled
    q_etg,          \* qchannel -> elementary EPRs generated
    q_crashed,      \* the exception that ended the run, "" if none
    q_last,         \* the SWAP_UPDATE the last step handled at its destination
    \* ---- Part IX in SYNC timing mode
    ll_phase        \* end -> sync_current_phase of its link layer

poolVars == <<tc, event_list, events, accepted, added, returned, popCount,
              invoked, canceledPending>>

fwVars == <<route, swap_sequence, swapped_self, received_swaps, mem,
            entangledEv, releasedEv, negoc, avail, msgs, etg_count,
            nDecohered, crashed, cnt, consumed, lastSwap, lastSU,
            failedInputs>>

syncVars == <<now, sequence, phase, end_time, waiting_etg, arrive>>

muxVars == <<scheme, provided, etg_tmp, n_select, qm, etgEv, su,
             parallel_swappings, swapLog, e2e, mux_failed>>

cutVars == <<cutoff, n_cutoff, cut_events>>

memVars == <<storage, usage, sim_tc, sim_events, n_added, last,
             mem_crashed>>

tmVars == <<timing, signalled>>

llVars == <<ll_now, ll_queue, ll_mem, pending_negoc, fifo_epr_init,
            ll_n_epr, ll_crashed>>

ctlVars == <<fib_table, qubit_pid, ctl_last>>

detVars == <<det_scenario, det_rng, det_run, det_pos, det_decisions>>

fibVars == <<fib_ref, dict_heap, fib_sent>>

qVars == <<q_mem, q_swapped_self, q_chan, q_ev, q_etg, q_crashed, q_last>>

\* The variables of the parts after Part XII.
\* The variables of the parts after Part XIII.
postQVars == <<ll_phase>>

postFibVars == <<qVars, postQVars>>

\* The variables of the parts after Part XI.
postDetVars == <<fibVars, postFibVars>>

\* The variables of the parts after Part X.
postCtlVars == <<detVars, postDetVars>>

\* The variables of the parts after Part IX.
postLlVars == <<ctlVars, postCtlVars>>

\* The variables of the parts after Part VIII.
postTmVars == <<llVars, postLlVars>>

\* The variables of the parts after Part VII.
postMemVars == <<tmVars, postTmVars>>

\* The variables of the parts after Part VI.
postCutVars == <<memVars, postMemVars>>

\* The variables of the parts after Part V.
postMuxVars == <<cutVars, postCutVars>>

\* The variables of the parts after Part III.
postSyncVars == <<muxVars, postMuxVars>>

\* The variables of the parts after Part II.
laterVars == <<syncVars, postSyncVars>>

vars == <<poolVars, fwVars, laterVars>>

\* ================================================================ Part I
\* pool.te (math.inf when the constructor is given None; here a finite end).
te == EndSlot

\* Time slots an event may carry: inside the run, and one slot past the end.
Slots == 0 .. (EndSlot + 1)

EventIds == 1 .. MaxEvents

\* Event.__lt__ with the operands swapped: a max-heap order.
EventGt(ev, a, b) == ev[a].t > ev[b].t

\* Event.__lt__: events compare by their time only.
EventLt(ev, a, b) == ev[a].t < ev[b].t

\* heapq._siftdown(heap, startpos, pos): move newitem up towards startpos
\* while it is smaller than its parent. Positions are 0-based as in Python;
\* heap[p + 1] is Python's heap[p].
RECURSIVE siftdown(_, _, _, _, _)
siftdown(ev, heap, startpos, pos, newitem) ==
    IF pos > startpos
    THEN LET parentpos == (pos - 1) \div 2
             parent    == heap[parentpos + 1]
         IN  IF EventLt(ev, newitem, parent)
             THEN siftdown(ev, [heap EXCEPT ![pos + 1] = parent],
                           startpos, parentpos, newitem)
             ELSE [heap EXCEPT ![pos + 1] = newitem]
    ELSE [heap EXCEPT ![pos + 1] = newitem]

\* heapq._siftup(heap, pos): bubble the smaller child up until a leaf is hit,
\* then sift newitem down from there.
RECURSIVE siftup(_, _, _, _, _)
siftup(ev, heap, startpos, pos, newitem) ==
    LET endpos   == Len(heap)
        childpos == 2 * pos + 1
    IN  IF childpos < endpos
        THEN LET rightpos == childpos + 1
                 c == IF rightpos < endpos
                         /\ ~EventLt(ev, heap[childpos + 1], heap[rightpos + 1])
                      THEN rightpos ELSE childpos
             IN  siftup(ev, [heap EXCEPT ![pos + 1] = heap[c + 1]],
                        startpos, c, newitem)
        ELSE siftdown(ev, heap, startpos, pos, newitem)

\* heapq.heappush(heap, item)
heappush(ev, heap, item) ==
    siftdown(ev, Append(heap, item), 0, Len(heap), item)

\* heapq.heappop(heap) on a non-empty heap: the returned item and the heap left.
heappop(ev, heap) ==
    LET n       == Len(heap)
        lastelt == heap[n]
        rest    == SubSeq(heap, 1, n - 1)
    IN  IF rest # <<>>
        THEN [item |-> rest[1], heap |-> siftup(ev, rest, 0, 0, lastelt)]
        ELSE [item |-> lastelt, heap |-> rest]

\* add_event's guard with an off-by-one at the current slot.
add_event_accepts_strict(t, cur, end) == ~(t <= cur \/ t > end)

\* DefaultEventPool.add_event: the event is inserted unless its slot is before
\* tc or after te.
add_event_accepts(t, cur, end) == ~(t < cur \/ t > end)

\* Event.cancel that forgets to set the flag.
cancel_noop(ev, e) == ev

\* Event.cancel: set _is_canceled.
cancel(ev, e) == [ev EXCEPT ![e].canceled = TRUE]

\* The run loop skips a popped event that is canceled and invokes any other.
run_invokes(ev, e) == ~ev[e].canceled

InitPool ==
    /\ tc = 0
    /\ event_list = <<>>
    /\ events = <<>>
    /\ accepted = {}
    /\ added = FALSE
    /\ returned = 0
    /\ popCount = [e \in EventIds |-> 0]
    /\ invoked = {}
    /\ canceledPending = {}

\* A new Event with time slot t is created and handed to add_event.
AddEvent(t) ==
    /\ Len(events) < MaxEvents
    /\ LET id  == Len(events) + 1
           ev2 == Append(events, [t |-> t, canceled |-> FALSE])
           ok  == add_event_accepts(t, tc, te)
       IN  /\ events' = ev2
           /\ event_list' = IF ok THEN heappush(ev2, event_list, id)
                                  ELSE event_list
           /\ accepted' = IF ok THEN accepted \cup {id} ELSE accepted
           /\ added' = ok
    /\ UNCHANGED <<tc, returned, popCount, invoked, canceledPending>>

\* next_event, followed by the run loop's skip-if-canceled / invoke.
NextEvent ==
    /\ IF event_list # <<>>
       THEN LET r == heappop(events, event_list)
            IN  /\ event_list' = r.heap
                /\ tc' = events[r.item].t
                /\ returned' = r.item
                /\ popCount' = [popCount EXCEPT ![r.item] = @ + 1]
                /\ invoked' = IF run_invokes(events, r.item)
                              THEN invoked \cup {r.item} ELSE invoked
       ELSE /\ tc' = te
            /\ returned' = 0
            /\ UNCHANGED <<event_list, popCount, invoked>>
    /\ UNCHANGED <<events, accepted, added, canceledPending>>

\* Event.cancel on an event that is waiting in the heap.
Cancel(e) ==
    /\ e \in 1 .. Len(events)
    /\ \E i \in 1 .. Len(event_list) : event_list[i] = e
    /\ ~events[e].canceled
    /\ events' = cancel(events, e)
    /\ canceledPending' = canceledPending \cup {e}
    /\ UNCHANGED <<tc, event_list, accepted, added, returned, popCount, invoked>>

NextPool ==
    \/ \E t \in Slots : AddEvent(t)
    \/ NextEvent
    \/ \E e \in EventIds : Cancel(e)

\* =============================================================== Part II
\* Length of the installed route (a linear path n1 .. nN); the route is chosen
\* at installation.
RouteLens == {3, 4}

\* Highest rank a swap sequence may use.
MaxRank == 1

\* Elementary EPRs generated in one run.
MaxEpr == 3

\* Decoherence timers that fire on a stored EPR in one run.
MaxDecohere == 1

Sides == {"prev", "next"}

\* The empty slot content (storage tuple (qubit, None)). An EPR name stands
\* for a fresh uuid: an elementary EPR is named after its channel and its
\* number on that channel, a swapped EPR after the elementary EPRs it was
\* made from.
NoEpr == [name |-> {}, src |-> 0, dst |-> 0]

\* list.index, 1-based: the position of name in the route.
index(rt, name) == CHOOSE i \in 1 .. Len(rt) : rt[i] = name

\* The memory of node n for its qchannel to the previous / next route node
\* exists when that neighbour exists (handle_control, prev_qmem / next_qmem).
HasMem(rt, n, side) ==
    IF side = "prev" THEN index(rt, n) > 1 ELSE index(rt, n) < Len(rt)

OtherSide(side) == IF side = "prev" THEN "next" ELSE "prev"

\* QubitFSM of a memory qubit: ENTANGLED -> PURIF -> ELIGIBLE -> RELEASE,
\* and RELEASE -> ENTANGLED when a new EPR is stored. A transition asked from
\* any other state leaves the state as it is.
to_entangled(st) == IF st = "RELEASE" THEN "ENTANGLED" ELSE st

to_purif(st) == IF st = "ENTANGLED" THEN "PURIF" ELSE st

to_eligible(st) == IF st = "PURIF" THEN "ELIGIBLE" ELSE st

to_release(st) == "RELEASE"

\* The rank rule with a strict comparison.
eval_swapping_conditions_strict(rt, seq, own, partner) ==
    seq[index(rt, partner)] > seq[index(rt, own)]

\* The rank rule with the comparison dropped: every partner qualifies.
eval_swapping_conditions_any(rt, seq, own, partner) == TRUE

\* ProactiveRouting.eval_swapping_conditions: partner_rank >= own_rank.
eval_swapping_conditions(rt, seq, own, partner) ==
    seq[index(rt, partner)] >= seq[index(rt, own)]

\* eligible()'s test with index 0 taken for an intermediate node.
is_intermediate_from0(rt, own) ==
    index(rt, own) >= 1 /\ index(rt, own) < Len(rt)

\* eligible(): own_idx > 0 and own_idx < len(route) - 1 (0-based indices).
is_intermediate(rt, own) ==
    index(rt, own) > 1 /\ index(rt, own) < Len(rt)

\* handle_signaling's test with the increment forgotten.
cycle_is_next_same(cycle, self_cycle) == cycle = self_cycle

\* handle_signaling: msg["cycle"] == fib_entry["swapped_self"] + 1.
cycle_is_next(cycle, self_cycle) == cycle = self_cycle + 1

\* The packet handed to the destination itself, whatever its distance.
next_hop_direct(rt, own, dest) == dest

\* send_swap_update: the next hop towards dest along the route.
next_hop(rt, own, dest) ==
    IF index(rt, dest) > index(rt, own)
    THEN rt[index(rt, own) + 1]
    ELSE rt[index(rt, own) - 1]

\* search_eligible_qubits without the test of the qubit's state.
search_eligible_qubits_stored(m, n, side) == m[<<n, side>>].epr # NoEpr

\* QuantumMemory.search_eligible_qubits of the single-qubit memory: the qubit
\* holds data and is ELIGIBLE (its pid is the installed path).
search_eligible_qubits(m, n, side) ==
    m[<<n, side>>].epr # NoEpr /\ m[<<n, side>>].state = "ELIGIBLE"

\* check_eligible_qubit: a memory of the node other than qmem that has an
\* eligible qubit; "none" when there is none.
check_eligible_qubit(rt, m, n, side) ==
    IF HasMem(rt, n, OtherSide(side))
       /\ search_eligible_qubits(m, n, OtherSide(side))
    THEN OtherSide(side) ELSE "none"

\* get_memory_qubit: the memory of the node that holds an EPR of this name.
get_memory_qubit(rt, m, n, name) ==
    IF HasMem(rt, n, "prev") /\ m[<<n, "prev">>].epr.name = name THEN "prev"
    ELSE IF HasMem(rt, n, "next") /\ m[<<n, "next">>].epr.name = name
         THEN "next" ELSE "none"

\* QuantumMemory.read(address): the slot is emptied; the qubit state stays.
mem_read(m, n, side) == [m EXCEPT ![<<n, side>>].epr = NoEpr]

\* QuantumMemory.write(qm, address) into the emptied slot.
mem_write(m, n, side, epr) == [m EXCEPT ![<<n, side>>].epr = epr]

set_state(m, n, side, st) == [m EXCEPT ![<<n, side>>].state = st]

\* No swap was performed by the step.
NoSwap == [node |-> 0, ok |-> FALSE, prev_epr |-> NoEpr, next_epr |-> NoEpr,
           new_epr |-> NoEpr, sent |-> {}]

\* The forwarder state that the handlers of one node read and write.
Handler ==
    [mem |-> mem, swapped_self |-> swapped_self,
     received_swaps |-> received_swaps, releasedEv |-> releasedEv,
     msgs |-> msgs, crashed |-> crashed, cnt |-> cnt,
     consumed |-> consumed, lastSwap |-> NoSwap,
     failedInputs |-> failedInputs]

\* The packet with the recipient itself written as the new partner.
swap_update_self(rt, own, dest, partner, old, new, cycle) ==
    [at |-> next_hop(rt, own, dest), destination |-> dest,
     swapping_node |-> own, partner |-> dest, epr |-> old.name,
     new_epr |-> new, cycle |-> cycle, fwd |-> FALSE,
     results |-> [alias |-> TRUE, val |-> {}]]

\* One SWAP_UPDATE packet handed to the classical channel towards its next hop.
swap_update(rt, own, dest, partner, old, new, cycle) ==
    [at |-> next_hop(rt, own, dest), destination |-> dest,
     swapping_node |-> own, partner |-> partner, epr |-> old.name,
     new_epr |-> new, cycle |-> cycle, fwd |-> FALSE,
     results |-> [alias |-> TRUE, val |-> {}]]

\* eligible(), the intermediate-node branch when another eligible qubit was
\* found: swap this qubit (n, side) with the qubit of the other memory.
do_swap(rt, s, n, side, other, ok) ==
    LET this_epr  == s.mem[<<n, side>>].epr
        other_epr == s.mem[<<n, other>>].epr
        cyc       == s.swapped_self[n] + 1
        m1 == set_state(set_state(mem_read(mem_read(s.mem, n, side), n, other),
                                  n, side, to_release(s.mem[<<n, side>>].state)),
                        n, other, to_release(s.mem[<<n, other>>].state))
        s1 == [s EXCEPT !.swapped_self[n] = cyc,
                        !.received_swaps = @ \cup {n},
                        !.mem = m1]
    IN  IF this_epr = NoEpr
        THEN [s EXCEPT !.crashed = "AttributeError: swapping on None"]
        ELSE IF ~ok
        THEN [s1 EXCEPT !.lastSwap = [node |-> n, ok |-> FALSE,
                                      prev_epr |-> this_epr,
                                      next_epr |-> other_epr,
                                      new_epr |-> NoEpr, sent |-> {}],
                        !.failedInputs = @ \cup {this_epr.name, other_epr.name}]
        ELSE IF this_epr.dst # n /\ this_epr.src # n
        THEN [s1 EXCEPT !.crashed = "Exception: Unexpected swapping EPRs"]
        ELSE
          LET thisIsPrev   == this_epr.dst = n
              prev_epr     == IF thisIsPrev THEN this_epr ELSE other_epr
              next_epr     == IF thisIsPrev THEN other_epr ELSE this_epr
              prev_side    == IF thisIsPrev THEN side ELSE other
              next_side    == IF thisIsPrev THEN other ELSE side
              prev_partner == prev_epr.src
              next_partner == next_epr.dst
              new_epr == [name |-> prev_epr.name \cup next_epr.name,
                          src |-> prev_partner, dst |-> next_partner]
              out == {swap_update(rt, n, prev_partner, next_partner,
                                  prev_epr, new_epr, cyc),
                      swap_update(rt, n, next_partner, prev_partner,
                                  next_epr, new_epr, cyc)}
          IN  [s1 EXCEPT !.releasedEv = @ \cup
                             {[node |-> n, side |-> prev_side],
                              [node |-> n, side |-> next_side]},
                         !.msgs = @ \cup out,
                         !.lastSwap = [node |-> n, ok |-> TRUE,
                                       prev_epr |-> prev_epr,
                                       next_epr |-> next_epr,
                                       new_epr |-> new_epr, sent |-> out]]

\* eligible(), the end-node branch: deliver the qubit to the application.
consume(s, n, side) ==
    [s EXCEPT !.mem = set_state(mem_read(@, n, side), n, side,
                                to_release(@[<<n, side>>].state)),
              !.swapped_self[n] = @ + 1,
              !.releasedEv = @ \cup {[node |-> n, side |-> side]},
              !.cnt[n].n_consumed = @ + 1,
              !.consumed = @ \cup {[node |-> n, epr |-> s.mem[<<n, side>>].epr]}]

\* ProactiveRouting.eligible
eligible(rt, s, n, side, ok) ==
    IF is_intermediate(rt, n)
    THEN LET other == check_eligible_qubit(rt, s.mem, n, side)
         IN  IF other = "none" THEN s
             ELSE do_swap(rt, s, n, side, other, ok)
    ELSE consume(s, n, side)

\* ProactiveRouting.purif: no purification yet, the qubit becomes ELIGIBLE.
purif(rt, s, n, side, ok) ==
    LET s1 == [s EXCEPT !.mem = set_state(@, n, side,
                                          to_eligible(@[<<n, side>>].state)),
                        !.cnt[n].n_eligible = @ + 1]
    IN  eligible(rt, s1, n, side, ok)

\* The qubit passed the rank rule: to_purif(), then purif().
go_to_purif(rt, s, n, side, ok) ==
    purif(rt,
          [s EXCEPT !.mem = set_state(@, n, side,
                                      to_purif(@[<<n, side>>].state))],
          n, side, ok)

\* No SWAP_UPDATE reached its destination in the step.
NoSU == [node |-> 0, old |-> {}, epr |-> NoEpr, partner |-> 0, cycle |-> 0]

\* handle_signaling, cmd SWAP_UPDATE, at the destination of the message.
su_at_destination(rt, seq, s, n, m, ok) ==
    IF cycle_is_next(m.cycle, s.swapped_self[n])
    THEN LET side == get_memory_qubit(rt, s.mem, n, m.epr)
         IN  IF side # "none"
             THEN LET s1 == [s EXCEPT !.mem = mem_write(mem_read(@, n, side),
                                                       n, side, m.new_epr)]
                  IN  IF eval_swapping_conditions(rt, seq, n, m.partner)
                      THEN go_to_purif(rt, s1, n, side, ok)
                      ELSE s1
             ELSE [s EXCEPT !.crashed = "AttributeError: log.debut"]
    ELSE IF m.cycle > s.swapped_self[n]
         THEN s
         ELSE [s EXCEPT !.crashed = "AttributeError: log.debut"]

\* handle_signaling, cmd SWAP_UPDATE, at a node that is not the destination:
\* the copy of the message is sent on towards the destination.
su_forward(rt, s, n, m) ==
    IF s.swapped_self[n] >= m.cycle
    THEN LET res == IF m.results.alias THEN s.received_swaps
                    ELSE m.results.val
         IN  [s EXCEPT !.msgs = @ \cup
                 {[m EXCEPT !.at = next_hop(rt, n, m.destination),
                            !.fwd = TRUE,
                            !.results = [alias |-> FALSE,
                                         val |-> res \cup {n}]]}]
    ELSE [s EXCEPT !.crashed = "AttributeError: log.debut"]

\* The handler's result becomes the next state.
Commit(s) ==
    /\ mem' = s.mem
    /\ swapped_self' = s.swapped_self
    /\ received_swaps' = s.received_swaps
    /\ releasedEv' = s.releasedEv
    /\ msgs' = s.msgs
    /\ crashed' = s.crashed
    /\ cnt' = s.cnt
    /\ consumed' = s.consumed
    /\ lastSwap' = s.lastSwap
    /\ failedInputs' = s.failedInputs

Nodes == 1 .. 6

Links == 1 .. 4

\* The swap sequences a path of len nodes is installed with: one rank per
\* node, the two end nodes holding the highest rank of the sequence, as in
\* [2,0,1,2], [1,0,1], [1,0,0,1] and [0,0,0].
SwapSequences(len) ==
    {seq \in [1 .. len -> 0 .. MaxRank] :
        /\ seq[1] = seq[len]
        /\ \A i \in 1 .. len : seq[i] <= seq[1]}

\* The state after install_path has reached every node of the route: one FIB
\* entry per node with swapped_self = 0, every qubit allocated to the path and
\* empty, and the link layer negotiating on every channel.
Installed ==
    /\ swapped_self = [n \in Nodes |-> 0]
    /\ received_swaps = {}
    /\ mem = [q \in Nodes \X Sides |-> [state |-> "RELEASE", epr |-> NoEpr]]
    /\ entangledEv = {}
    /\ releasedEv = {}
    /\ negoc = [l \in Links |-> l < Len(route)]
    /\ avail = [l \in Links |-> l < Len(route)]
    /\ msgs = {}
    /\ etg_count = [n \in Nodes |-> 0]
    /\ nDecohered = 0
    /\ crashed = ""
    /\ cnt = [n \in Nodes |-> [n_eligible |-> 0, n_consumed |-> 0]]
    /\ consumed = {}
    /\ lastSwap = NoSwap
    /\ lastSU = NoSU
    /\ failedInputs = {}

\* A path of one of the modelled lengths, installed with any of its swap
\* sequences.
InitFw ==
    /\ \E len \in RouteLens : route = [i \in 1 .. len |-> i]
    /\ swap_sequence \in SwapSequences(Len(route))
    /\ Installed

\* Elementary EPRs generated so far, over all channels.
Generated == etg_count[1] + etg_count[2] + etg_count[3] + etg_count[4]

\* Link layer, for the channel between route[l] and route[l + 1]: the
\* negotiated attempt succeeds (do_successful_attempt at the initiator,
\* handle_distribution at the receiver); both halves are stored and both
\* forwarders are notified.
Attempt(l) ==
    /\ crashed = ""
    /\ l < Len(route)
    /\ negoc[l] /\ avail[l]
    /\ LET a   == route[l]
           b   == route[l + 1]
           epr == [name |-> {<<l, etg_count[a] + 1>>}, src |-> a, dst |-> b]
       IN  IF mem[<<a, "next">>].epr # NoEpr \/ mem[<<b, "prev">>].epr # NoEpr
           THEN /\ crashed' = "Exception: memory full"
                /\ UNCHANGED <<mem, entangledEv, etg_count, negoc, avail>>
           ELSE /\ mem' = [mem EXCEPT
                            ![<<a, "next">>] =
                                [state |-> to_entangled(@.state), epr |-> epr],
                            ![<<b, "prev">>] =
                                [state |-> to_entangled(@.state), epr |-> epr]]
                /\ entangledEv' = entangledEv \cup
                        {[node |-> a, side |-> "next", neighbor |-> b],
                         [node |-> b, side |-> "prev", neighbor |-> a]}
                /\ etg_count' = [etg_count EXCEPT ![a] = @ + 1]
                /\ negoc' = [negoc EXCEPT ![l] = FALSE]
                /\ avail' = [avail EXCEPT ![l] = FALSE]
                /\ crashed' = crashed
    /\ lastSwap' = NoSwap
    /\ lastSU' = NoSU
    /\ UNCHANGED <<route, swap_sequence, swapped_self, received_swaps,
                   releasedEv, msgs, nDecohered, cnt, consumed,
                   failedInputs, poolVars, laterVars>>

\* A successful attempt on channel l while the run's EPR budget lasts.
Entangle(l) == Generated < MaxEpr /\ Attempt(l)

\* ProactiveRouting.handle_event for a QubitEntangledEvent.
HandleQubitEntangled(ev, ok) ==
    /\ crashed = ""
    /\ ev \in entangledEv
    /\ entangledEv' = entangledEv \ {ev}
    /\ Commit(IF eval_swapping_conditions(route, swap_sequence, ev.node,
                                          ev.neighbor)
              THEN go_to_purif(route, Handler, ev.node, ev.side, ok)
              ELSE Handler)
    /\ lastSU' = NoSU
    /\ UNCHANGED <<route, swap_sequence, negoc, avail, etg_count, nDecohered,
                   poolVars, laterVars>>

\* A SWAP_UPDATE packet arrives at its next hop: handle_signaling.
\* A packet that names an elementary EPR was sent after the partner handled
\* its QubitEntangledEvent, which the link layer schedules for the same time
\* at both ends, so it arrives after this node handled its own.
RecvSwapUpdate(m, ok) ==
    /\ crashed = ""
    /\ m \in msgs
    /\ LET n  == m.at
           s0 == [Handler EXCEPT !.msgs = @ \ {m}]
       IN  /\ ~\E ev \in entangledEv :
                  ev.node = n /\ mem[<<n, ev.side>>].epr.name = m.epr
           /\ IF m.destination = n
              THEN /\ Commit(su_at_destination(route, swap_sequence, s0, n, m, ok))
                   /\ lastSU' = [node |-> n, old |-> m.epr,
                                 epr |-> m.new_epr, partner |-> m.partner,
                                 cycle |-> m.cycle]
              ELSE /\ Commit(su_forward(route, s0, n, m))
                   /\ lastSU' = NoSU
    /\ UNCHANGED <<route, swap_sequence, entangledEv, negoc, avail,
                   etg_count, nDecohered, poolVars, laterVars>>

\* LinkLayer.handle_event for QubitReleasedEvent and QubitDecoheredEvent
\* (ASYNC timing): the initiator of the channel starts a new negotiation for
\* the qubit, the other end marks the qubit free for a reservation.
HandleQubitReleased(ev) ==
    /\ crashed = ""
    /\ ev \in releasedEv
    /\ releasedEv' = releasedEv \ {ev}
    /\ IF ev.side = "next"
       THEN IF negoc[index(route, ev.node)]
            THEN /\ crashed' = "Exception: negociation already init"
                 /\ UNCHANGED <<negoc, avail>>
            ELSE /\ negoc' = [negoc EXCEPT ![index(route, ev.node)] = TRUE]
                 /\ UNCHANGED <<avail, crashed>>
       ELSE /\ avail' = [avail EXCEPT ![index(route, ev.node) - 1] = TRUE]
            /\ UNCHANGED <<negoc, crashed>>
    /\ lastSwap' = NoSwap
    /\ lastSU' = NoSU
    /\ UNCHANGED <<route, swap_sequence, swapped_self, received_swaps, mem,
                   entangledEv, msgs, etg_count, nDecohered, cnt, consumed,
                   failedInputs, poolVars, laterVars>>

\* QuantumMemory.decohere_qubit: the timer of a stored EPR fires while the
\* memory still holds it.
Decohere(n, side) ==
    /\ crashed = ""
    /\ n <= Len(route)
    /\ HasMem(route, n, side)
    /\ mem[<<n, side>>].epr # NoEpr
    /\ ~\E ev \in entangledEv : ev.node = n /\ ev.side = side
    /\ nDecohered < MaxDecohere
    /\ nDecohered' = nDecohered + 1
    /\ mem' = set_state(mem_read(mem, n, side), n, side,
                        to_release(mem[<<n, side>>].state))
    /\ releasedEv' = releasedEv \cup {[node |-> n, side |-> side]}
    /\ lastSwap' = NoSwap
    /\ lastSU' = NoSU
    /\ UNCHANGED <<route, swap_sequence, swapped_self, received_swaps,
                   entangledEv, negoc, avail, msgs, etg_count, crashed, cnt,
                   consumed, failedInputs, poolVars, laterVars>>

NextFw ==
    \/ \E l \in Links : Entangle(l)
    \/ \E ev \in entangledEv, ok \in BOOLEAN : HandleQubitEntangled(ev, ok)
    \/ \E m \in msgs, ok \in BOOLEAN : RecvSwapUpdate(m, ok)
    \/ \E ev \in releasedEv : HandleQubitReleased(ev)
    \/ \E n \in Nodes, side \in Sides : Decohere(n, side)

\* ======================================================== specifications
\* The forwarder variables while only the event pool runs.
FwIdle ==
    /\ route = <<>>
    /\ swap_sequence = <<>>
    /\ swapped_self = [n \in Nodes |-> 0]
    /\ received_swaps = {}
    /\ mem = [q \in Nodes \X Sides |-> [state |-> "RELEASE", epr |-> NoEpr]]
    /\ entangledEv = {}
    /\ releasedEv = {}
    /\ negoc = [l \in Links |-> FALSE]
    /\ avail = [l \in Links |-> FALSE]
    /\ msgs = {}
    /\ etg_count = [n \in Nodes |-> 0]
    /\ nDecohered = 0
    /\ crashed = ""
    /\ cnt = [n \in Nodes |-> [n_eligible |-> 0, n_consumed |-> 0]]
    /\ consumed = {}
    /\ lastSwap = NoSwap
    /\ lastSU = NoSU
    /\ failedInputs = {}

\* ASYNC timing: no phase clock runs and no event is kept back.
SyncIdle ==
    /\ now = 0
    /\ sequence = <<>>
    /\ phase = "ASYNC"
    /\ end_time = 0
    /\ waiting_etg = [n \in Nodes |-> <<>>]
    /\ arrive = <<>>

\* No multiplexing scheme is installed and no qchannel is mapped to a path.
MuxIdle ==
    /\ scheme = "none"
    /\ provided = {}
    /\ etg_tmp = <<>>
    /\ n_select = <<>>
    /\ qm = <<>>
    /\ etgEv = {}
    /\ su = {}
    /\ parallel_swappings = <<>>
    /\ swapLog = {}
    /\ e2e = {}
    /\ mux_failed = ""

\* No cut-off scheme is installed.
CutIdle ==
    /\ cutoff = <<>>
    /\ n_cutoff = <<>>
    /\ cut_events = {}

\* No memory is modelled on its own.
MemIdle ==
    /\ storage = <<>>
    /\ usage = 0
    /\ sim_tc = 0
    /\ sim_events = {}
    /\ n_added = 0
    /\ last = <<>>
    /\ mem_crashed = ""

\* No timing mode is modelled on its own.
TimingIdle ==
    /\ timing = <<>>
    /\ signalled = <<>>

\* No link layer is modelled on its own.
LinkIdle ==
    /\ ll_now = 0
    /\ ll_queue = <<>>
    /\ ll_mem = <<>>
    /\ pending_negoc = {}
    /\ fifo_epr_init = <<>>
    /\ ll_n_epr = 0
    /\ ll_crashed = ""

\* No control plane is modelled on its own.
CtlIdle ==
    /\ fib_table = <<>>
    /\ qubit_pid = <<>>
    /\ ctl_last = <<>>

\* No run is compared with another.
DetIdle ==
    /\ det_scenario = <<>>
    /\ det_rng = <<>>
    /\ det_run = 0
    /\ det_pos = 0
    /\ det_decisions = <<>>

\* No FIB object is modelled.
FibIdle ==
    /\ fib_ref = <<>>
    /\ dict_heap = <<>>
    /\ fib_sent = {}

\* No multi-qubit path is installed.
QIdle ==
    /\ q_mem = <<>>
    /\ q_swapped_self = <<>>
    /\ q_chan = <<>>
    /\ q_ev = {}
    /\ q_etg = <<>>
    /\ q_crashed = ""
    /\ q_last = <<>>

\* No link layer runs in SYNC mode.
PostQIdle == ll_phase = <<>>

\* The parts after Part XII at rest.
PostFibIdle == QIdle /\ PostQIdle

\* The parts after Part XI at rest.
PostDetIdle == FibIdle /\ PostFibIdle

\* The parts after Part X at rest.
PostCtlIdle == DetIdle /\ PostDetIdle

\* The parts after Part IX at rest.
PostLlIdle == CtlIdle /\ PostCtlIdle

\* The parts after Part VIII at rest.
PostTmIdle == LinkIdle /\ PostLlIdle

\* The parts after Part VII at rest.
PostMemIdle == TimingIdle /\ PostTmIdle

\* The parts after Part VI at rest.
PostCutIdle == MemIdle /\ PostMemIdle

\* The parts after Part V at rest.
PostMuxIdle == CutIdle /\ PostCutIdle

\* The parts after Part III at rest.
PostSyncIdle == MuxIdle /\ PostMuxIdle

\* The parts after Part II at rest.
LaterIdle == SyncIdle /\ PostSyncIdle

Init == InitPool /\ FwIdle /\ LaterIdle

Next == NextPool /\ UNCHANGED <<fwVars, laterVars>>

\* The event pool under arbitrary add_event / next_event / cancel calls.
Spec == Init /\ [][Next]_vars

\* An installed path, with the event pool as constructed.
InitPath == InitPool /\ InitFw /\ LaterIdle

\* The forwarders of one installed path under every order of events.
SpecFw == InitPath /\ [][NextFw]_vars

\* The same, the simulator running events as long as it holds one.
SpecFwLive == SpecFw /\ WF_vars(NextFw)

\* ---- the 5-node path of test_5_sequential
\* The sequential swap orders: left to right, right to left, balanced.
SequentialOrders == {<<3, 0, 1, 2, 3>>, <<3, 2, 1, 0, 3>>, <<3, 0, 1, 0, 3>>}

\* A linear path of len nodes installed with one of the given sequences.
InitLinear(len, seqs) ==
    /\ InitPool
    /\ route = [i \in 1 .. len |-> i]
    /\ swap_sequence \in seqs
    /\ Installed
    /\ LaterIdle

InitSeq == InitLinear(5, SequentialOrders)

\* provide_entanglements: channel l receives its one elementary EPR.
Provide(l) == etg_count[l] = 0 /\ Attempt(l)

\* The classical channels keep the order of the packets: a SWAP_UPDATE that
\* names the EPR made by an earlier swap travels behind that swap's own
\* SWAP_UPDATE to the same destination.
InOrder(m) ==
    ~\E m1 \in msgs :
        m1.destination = m.destination /\ m1.new_epr.name = m.epr

\* A SWAP_UPDATE arrives at its next hop; every swap succeeds (ps = 1).
Deliver(m) == InOrder(m) /\ RecvSwapUpdate(m, TRUE)

NextSeq ==
    \/ \E l \in Links : Provide(l)
    \/ \E ev \in entangledEv : HandleQubitEntangled(ev, TRUE)
    \/ \E m \in msgs : Deliver(m)
    \/ \E ev \in releasedEv : HandleQubitReleased(ev)

\* The 5-node path with one EPR per channel, under every arrival order.
SpecSeq == InitSeq /\ [][NextSeq]_vars

\* ---- the 4-node path of test_4_asap
InitAsap == InitLinear(4, {<<1, 0, 0, 1>>})

\* The 4-node SWAP-ASAP path with one EPR per channel, under every arrival
\* order.
SpecAsap == InitAsap /\ [][NextSeq]_vars

\* ============================================ Part III: TimingModeSync
\* Times are counted in units of 0.1 ms from the start of the cycle in which
\* the elementary EPRs arrive (t = 1.000 s of the run).

\* One EXTERNAL phase and one INTERNAL phase: t_ext + t_int = 0.010000 s.
Cycle == 100

\* The delay of one classic channel: 0.0005 s.
HopDelay == 5

\* The time the elementary EPRs are provided: 1.001 s.
ArrivalTime == 10

\* The simulated time ends a while after the cycle does.
Horizon == 120

\* The EXTERNAL phase durations of the scenario, and one more with which a
\* SWAP_UPDATE arrives at the very end of the INTERNAL phase.
TExt == {84, 89, 90, 94, 99}

\* TimingModeSync.__init__ without a ROUTING phase.
TimingModeSync(t_ext, t_int) ==
    <<[phase |-> "EXTERNAL", duration |-> t_ext],
      [phase |-> "INTERNAL", duration |-> t_int]>>

\* TimingModeSync._is_phase with the end of the phase included.
is_phase_closed(ph, et, p, t) == ph = p /\ t <= et

\* TimingModeSync._is_phase for a given time t.
is_phase(ph, et, p, t) == ph = p /\ t < et

\* TimingMode.is_internal at the current time.
is_internal == is_phase(phase, end_time, "INTERNAL", now)

\* The duration of the EXTERNAL phase of the installed timing mode.
t_ext_of(sq) == (CHOOSE x \in {sq[i] : i \in 1 .. Len(sq)} :
                     x.phase = "EXTERNAL").duration

\* The 4-node path [2,0,1,2] with SYNC timing, after TimingModeSync.install:
\* the phase is the last of the sequence and the first signal is due.
InitSync ==
    /\ InitPool
    /\ route = <<1, 2, 3, 4>>
    /\ swap_sequence = <<2, 0, 1, 2>>
    /\ Installed
    /\ now = 0
    /\ \E t \in TExt : sequence = TimingModeSync(t, Cycle - t)
    /\ phase = sequence[Len(sequence)].phase
    /\ end_time = 0
    /\ waiting_etg = [n \in Nodes |-> <<>>]
    /\ arrive = <<>>
    /\ PostSyncIdle

\* The forwarder's handler of one QubitEntangledEvent, on handler state s.
qubit_is_entangled(rt, seq, s, ev) ==
    IF eval_swapping_conditions(rt, seq, ev.node, ev.neighbor)
    THEN go_to_purif(rt, s, ev.node, ev.side, TRUE)
    ELSE s

\* One node handles the events it kept back, in their order of arrival.
RECURSIVE handle_waiting(_, _, _, _)
handle_waiting(rt, seq, s, q) ==
    IF q = <<>> THEN s
    ELSE handle_waiting(rt, seq, qubit_is_entangled(rt, seq, s, Head(q)),
                        Tail(q))

\* Every node of network.all_nodes handles the TimingPhaseEvent, in order:
\* at the start of INTERNAL a forwarder handles the events it kept back.
RECURSIVE handle_phase(_, _, _, _, _)
handle_phase(rt, seq, s, w, n) ==
    IF n > Len(rt) THEN s
    ELSE handle_phase(rt, seq, handle_waiting(rt, seq, s, w[rt[n]]), w, n + 1)

\* TimingModeSync.signal_phase, run when the clock reaches end_time.
signal_phase ==
    /\ crashed = ""
    /\ now = end_time
    /\ entangledEv = {}
    /\ LET this_phase == Head(sequence)
       IN  /\ sequence' = Append(Tail(sequence), this_phase)
           /\ phase' = this_phase.phase
           /\ end_time' = now + this_phase.duration
           /\ IF this_phase.phase = "INTERNAL"
              THEN /\ Commit(handle_phase(route, swap_sequence, Handler,
                                          waiting_etg, 1))
                   /\ waiting_etg' = [n \in Nodes |-> <<>>]
              ELSE /\ Commit(Handler)
                   /\ UNCHANGED waiting_etg
    /\ lastSU' = NoSU
    /\ UNCHANGED <<route, swap_sequence, entangledEv, negoc, avail,
                   etg_count, nDecohered, now, arrive, poolVars,
                   postSyncVars>>

\* provide_entanglements at t = 1.001 s: channel l receives its EPR.
ProvideSync(l) ==
    /\ now = ArrivalTime
    /\ Provide(l)

\* The forwarder receives a QubitEntangledEvent: outside the INTERNAL phase
\* it keeps the event for the start of the next INTERNAL phase.
SyncQubitEntangled(ev) ==
    /\ ev \in entangledEv
    /\ IF is_internal
       THEN HandleQubitEntangled(ev, TRUE)
       ELSE
         /\ crashed = ""
         /\ entangledEv' = entangledEv \ {ev}
         /\ waiting_etg' = [waiting_etg EXCEPT ![ev.node] = Append(@, ev)]
         /\ lastSwap' = NoSwap
         /\ lastSU' = NoSU
         /\ UNCHANGED <<route, swap_sequence, swapped_self, received_swaps,
                        mem, releasedEv, negoc, avail, msgs, etg_count,
                        nDecohered, crashed, cnt, consumed, failedInputs,
                        now, sequence, phase, end_time, arrive, poolVars,
                        postSyncVars>>

\* A SWAP_UPDATE arrives at its next hop at its arrival time: a destination
\* outside the INTERNAL phase drops it.
SyncDeliver(m) ==
    /\ m \in DOMAIN arrive
    /\ arrive[m] = now
    /\ IF m.at = m.destination /\ ~is_internal
       THEN /\ crashed = ""
            /\ m \in msgs
            /\ msgs' = msgs \ {m}
            /\ lastSwap' = NoSwap
            /\ lastSU' = NoSU
            /\ UNCHANGED <<route, swap_sequence, swapped_self,
                           received_swaps, mem, entangledEv, releasedEv,
                           negoc, avail, etg_count, nDecohered, crashed, cnt,
                           consumed, failedInputs, laterVars, poolVars>>
       ELSE RecvSwapUpdate(m, TRUE)

\* The arrival time of every packet in flight: a packet sent at the current
\* time arrives one channel delay later (BaseChannel._send).
arrival_times ==
    [m \in msgs |-> IF m \in DOMAIN arrive THEN arrive[m] ELSE now + HopDelay]

\* The times of the events the simulator still holds.
due_times ==
    {arrival_times[m] : m \in msgs} \cup {end_time}
        \cup {t \in {ArrivalTime} : now < t}

\* Simulator.run takes the next event of the pool: the clock moves to the
\* earliest pending time once nothing is left to do at the current time.
Advance ==
    /\ crashed = ""
    /\ entangledEv = {}
    /\ now # end_time
    /\ \A m \in msgs : m \in DOMAIN arrive => arrive[m] > now
    /\ now = ArrivalTime => \A l \in 1 .. Len(route) - 1 : etg_count[l] = 1
    /\ LET next == CHOOSE t \in due_times : \A u \in due_times : t <= u
       IN  /\ next <= Horizon
           /\ now' = next
    /\ arrive' = arrival_times
    /\ lastSwap' = NoSwap
    /\ lastSU' = NoSU
    /\ UNCHANGED <<route, swap_sequence, swapped_self, received_swaps, mem,
                   entangledEv, releasedEv, negoc, avail, msgs, etg_count,
                   nDecohered, crashed, cnt, consumed, failedInputs,
                   sequence, phase, end_time, waiting_etg, poolVars,
                   postSyncVars>>

NextSync ==
    \/ signal_phase
    \/ \E l \in Links : ProvideSync(l)
    \/ \E ev \in entangledEv : SyncQubitEntangled(ev)
    \/ \E m \in msgs : SyncDeliver(m)
    \/ Advance

\* The 4-node path under SYNC timing, for each EXTERNAL phase duration.
SpecSync == InitSync /\ [][NextSync]_vars

\* ========================================= Part IV: two paths, one request
\* The rectangle n1-n2-n4 / n1-n3-n4 of test_rect_multipath. An end node keeps
\* one FIB entry and one memory per path; n1 and n4 are written 5 and 6 where
\* they act for the second path.
RectRoutes == {<<1, 2, 4>>, <<5, 3, 6>>}

\* RoutingPathMulti("n1", "n4", swap=[1, 0, 1]).
RectSwap == <<1, 0, 1>>

\* The node behind each FIB entry.
Phys(n) == IF n = 5 THEN 1 ELSE IF n = 6 THEN 4 ELSE n

\* The route of the FIB entry (path_id) that node n acts for.
RouteOf(n) ==
    CHOOSE rt \in RectRoutes : \E i \in 1 .. Len(rt) : rt[i] = n

\* The channels of the rectangle, each from its route's earlier node.
RectChannels ==
    {<<rt[i], rt[i + 1]>> : rt \in RectRoutes, i \in 1 .. 2}

\* Both paths installed, no EPR yet; there is no link layer.
InitRect ==
    /\ InitPool
    /\ route = <<>>
    /\ swap_sequence = RectSwap
    /\ Installed
    /\ LaterIdle

\* provide_entanglements for the channel from a to b: both memories store
\* the EPR and both forwarders are notified.
RectProvide(a, b) ==
    /\ crashed = ""
    /\ etg_count[a] = 0
    /\ LET epr == [name |-> {<<a, 1>>}, src |-> a, dst |-> b]
       IN  /\ mem' = [mem EXCEPT
                        ![<<a, "next">>] =
                            [state |-> to_entangled(@.state), epr |-> epr],
                        ![<<b, "prev">>] =
                            [state |-> to_entangled(@.state), epr |-> epr]]
           /\ entangledEv' = entangledEv \cup
                   {[node |-> a, side |-> "next", neighbor |-> b],
                    [node |-> b, side |-> "prev", neighbor |-> a]}
    /\ etg_count' = [etg_count EXCEPT ![a] = 1]
    /\ lastSwap' = NoSwap
    /\ lastSU' = NoSU
    /\ UNCHANGED <<route, swap_sequence, swapped_self, received_swaps,
                   releasedEv, negoc, avail, msgs, nDecohered, crashed, cnt,
                   consumed, failedInputs, poolVars, laterVars>>

\* handle_event for a QubitEntangledEvent, with the FIB entry of the qubit's
\* path.
RectQubitEntangled(ev) ==
    /\ crashed = ""
    /\ ev \in entangledEv
    /\ entangledEv' = entangledEv \ {ev}
    /\ Commit(qubit_is_entangled(RouteOf(ev.node), RectSwap, Handler, ev))
    /\ lastSU' = NoSU
    /\ UNCHANGED <<route, swap_sequence, negoc, avail, etg_count, nDecohered,
                   poolVars, laterVars>>

\* handle_signaling for a SWAP_UPDATE, with the FIB entry of msg["path_id"].
RectSwapUpdate(m) ==
    /\ crashed = ""
    /\ m \in msgs
    /\ LET n  == m.at
           rt == RouteOf(n)
           s0 == [Handler EXCEPT !.msgs = @ \ {m}]
       IN  /\ ~\E ev \in entangledEv :
                  ev.node = n /\ mem[<<n, ev.side>>].epr.name = m.epr
           /\ IF m.destination = n
              THEN /\ Commit(su_at_destination(rt, RectSwap, s0, n, m, TRUE))
                   /\ lastSU' = [node |-> n, old |-> m.epr,
                                 epr |-> m.new_epr, partner |-> m.partner,
                                 cycle |-> m.cycle]
              ELSE /\ Commit(su_forward(rt, s0, n, m))
                   /\ lastSU' = NoSU
    /\ UNCHANGED <<route, swap_sequence, entangledEv, negoc, avail,
                   etg_count, nDecohered, poolVars, laterVars>>

NextRect ==
    \/ \E ch \in RectChannels : RectProvide(ch[1], ch[2])
    \/ \E ev \in entangledEv : RectQubitEntangled(ev)
    \/ \E m \in msgs : RectSwapUpdate(m)

\* The rectangle with at most one EPR per channel, under every choice of the
\* channels that get one and every order of arrival.
SpecRect == InitRect /\ [][NextRect]_vars

\* ======================================== Part V: multiplexing schemes
\* The dumbbell of test_dumbbell_dynepr: n4 and n5 reach n6 and n7 over the
\* bottleneck n2 - n1 - n3; path 0 is n4-n2-n1-n3-n6, path 1 is
\* n5-n2-n1-n3-n7.
PathIds == {0, 1}

\* fib_entry["path_vector"] of path p.
PathVector(p) == IF p = 0 THEN <<4, 2, 1, 3, 6>> ELSE <<5, 2, 1, 3, 7>>

\* fib_entry["swap_sequence"] of both paths: swap="asap".
AsapSwap == <<1, 0, 0, 0, 1>>

MuxNodes == 1 .. 7

\* The qchannels, each written <<src, dst>> of its elementary EPRs.
Channels == {<<4, 2>>, <<5, 2>>, <<2, 1>>, <<1, 3>>, <<3, 6>>, <<3, 7>>}

\* The qchannels between an end node and the bottleneck.
EdgeChannels == Channels \ {<<2, 1>>, <<1, 3>>}

ChannelsOf(n) == {ch \in Channels : n \in {ch[1], ch[2]}}

NoChannel == <<0, 0>>

\* fw.qchannel_paths_map: the paths whose route uses the qchannel.
qchannel_paths_map(ch) ==
    {p \in PathIds :
         \E i \in 1 .. Len(PathVector(p)) - 1 :
             {PathVector(p)[i], PathVector(p)[i + 1]} = {ch[1], ch[2]}}

\* tmp_path_ids is None.
NoneIds == {-1}

\* An empty memory slot.
NoEprM == [name |-> {}, src |-> 0, dst |-> 0, tmp |-> NoneIds]

\* The elementary EPR of a qchannel; its tmp_path_ids live in etg_tmp, as
\* the two memories hold the same EPR object.
Elementary(ch) ==
    [name |-> {ch}, src |-> ch[1], dst |-> ch[2], tmp |-> NoneIds]

Released == [state |-> "RELEASE", epr |-> NoEprM]

\* The first letter of the node's name: R for a repeater, S and D for the
\* end nodes of the two sides.
node_name(n) == IF n <= 3 THEN "R" ELSE IF n <= 5 THEN "S" ELSE "D"

\* The state that the handlers of the forwarder and its scheme work on.
MuxHandler ==
    [etg_tmp |-> etg_tmp, n_select |-> n_select, qm |-> qm, su |-> su,
     par |-> parallel_swappings, log |-> swapLog, e2e |-> e2e,
     fail |-> mux_failed]

\* epr.tmp_path_ids of the EPR e.
tmp_path_ids(s, e) ==
    IF Cardinality(e.name) = 1
    THEN s.etg_tmp[CHOOSE c \in e.name : TRUE]
    ELSE e.tmp

\* memory.get(address): the EPR of the qubit, with its tmp_path_ids.
epr_at(s, n, ch) ==
    [s.qm[<<n, ch>>].epr EXCEPT !.tmp = tmp_path_ids(s, s.qm[<<n, ch>>].epr)]

\* The node at the other end of EPR e.
partner_of(e, n) == IF e.src = n THEN e.dst ELSE e.src

\* _can_enter_purif of the statistical scheme.
can_enter_purif(own_name, partner_name) ==
    \/ own_name = "R"
    \/ own_name = "S" /\ partner_name = "D"
    \/ own_name = "D" /\ partner_name = "S"

\* The union taken for the intersection.
intersect_tmp_path_ids_union(t0, t1) == t0 \cup t1

\* _intersect_tmp_path_ids: the common path ids (empty: it raises).
intersect_tmp_path_ids(t0, t1) == t0 \cap t1

\* The outcome of a scheme hook: the exception raised, or the tmp_path_ids
\* of the new EPR.
Raised(what) == [fail |-> what, tmp |-> NoneIds]

Returned(ids) == [fail |-> "", tmp |-> ids]

\* MuxScheme.swapping_succeeded(prev_epr, next_epr, new_epr).
swapping_succeeded(sch, tp, tn) ==
    IF tp = NoneIds \/ tn = NoneIds THEN Raised("AssertionError")
    ELSE IF sch = "dynamic"
         THEN IF tp = tn THEN Returned(tp) ELSE Raised("AssertionError")
         ELSE IF intersect_tmp_path_ids(tp, tn) = {}
              THEN Raised("Exception: Cannot select path ID")
              ELSE Returned(intersect_tmp_path_ids(tp, tn))

\* MuxScheme.su_parallel_succeeded(merged_epr, new_epr, other_epr).
su_parallel_succeeded(sch, tnew, tother) ==
    IF tnew = NoneIds \/ tother = NoneIds THEN Raised("AssertionError")
    ELSE IF sch = "dynamic"
         THEN IF tnew = tother THEN Returned(tnew)
              ELSE Raised("AssertionError")
         ELSE IF intersect_tmp_path_ids(tnew, tother) = {}
              THEN Raised("Exception: Cannot select path ID")
              ELSE Returned(intersect_tmp_path_ids(tnew, tother))

\* The order of the qchannels by name.
chan_lt(c, d) == c[1] < d[1] \/ (c[1] = d[1] /\ c[2] < d[2])

\* The swap candidate selector: the first or the last candidate.
select_swap_qubit(cands, first) ==
    CHOOSE c \in cands :
        \A d \in cands \ {c} : IF first THEN chan_lt(c, d) ELSE chan_lt(d, c)

\* fw._select_eligible_qubit: another ELIGIBLE qubit of the node, on one of
\* the qchannels inc, whose tmp_path_ids intersect ids.
select_eligible_qubit(s, n, exc, inc, ids, first) ==
    LET cands == {c \in (ChannelsOf(n) \cap inc) \ {exc} :
                      /\ s.qm[<<n, c>>].state = "ELIGIBLE"
                      /\ s.qm[<<n, c>>].epr # NoEprM
                      /\ tmp_path_ids(s, s.qm[<<n, c>>].epr) \cap ids # {}}
    IN  IF cands = {} THEN NoChannel ELSE select_swap_qubit(cands, first)

\* fw.consume_and_release at an end node.
consume_and_release(s, n, ch) ==
    [s EXCEPT !.e2e = @ \cup {[node |-> n, epr |-> epr_at(s, n, ch)]},
              !.qm[<<n, ch>>] = Released]

\* fw.do_swapping with ps = 1: the new EPR joins the remote ends of the two
\* inputs, the scheme sets its tmp_path_ids, both inputs are released, both
\* partners are sent a SWAP_UPDATE, and the swap is remembered for the
\* SWAP_UPDATEs of swaps made in parallel.
do_swapping(sch, s, n, ch, ch2, p) ==
    LET e0  == epr_at(s, n, ch)
        e1  == epr_at(s, n, ch2)
        r   == swapping_succeeded(sch, e0.tmp, e1.tmp)
        new == [name |-> e0.name \cup e1.name, src |-> partner_of(e0, n),
                dst |-> partner_of(e1, n), tmp |-> r.tmp]
    IN  IF r.fail # "" THEN [s EXCEPT !.fail = r.fail]
        ELSE [s EXCEPT
                !.qm = [@ EXCEPT ![<<n, ch>>] = Released,
                                 ![<<n, ch2>>] = Released],
                !.su = @ \cup
                    {[destination |-> partner_of(e0, n), path_id |-> p,
                      swapping_node |-> n, epr |-> e0.name, new_epr |-> new],
                     [destination |-> partner_of(e1, n), path_id |-> p,
                      swapping_node |-> n, epr |-> e1.name, new_epr |-> new]},
                !.par[n] = @ \cup
                    {[shared |-> e0.name, other |-> e1, my_new |-> new],
                     [shared |-> e1.name, other |-> e0, my_new |-> new]},
                !.log = @ \cup {[kind |-> "swap", node |-> n, a |-> e0.tmp,
                                 b |-> e1.tmp, new |-> r.tmp]}]

\* MuxSchemeFibBase.qubit_is_eligible, dynamic EPR-path allocation.
qubit_is_eligible_fib(sch, s, n, ch, p, first) ==
    IF index(PathVector(p), n) \in {1, Len(PathVector(p))}
    THEN consume_and_release(s, n, ch)
    ELSE LET res == select_eligible_qubit(s, n, ch, Channels, {p}, first)
         IN  IF res = NoChannel THEN s
             ELSE do_swapping(sch, s, n, ch, res, p)

\* MuxSchemeStatistical.qubit_is_eligible.
qubit_is_eligible_stat(sch, s, n, ch, first) ==
    IF node_name(n) # "R" THEN consume_and_release(s, n, ch)
    ELSE LET t0  == epr_at(s, n, ch).tmp
             matched_channels ==
                 {c \in ChannelsOf(n) :
                      qchannel_paths_map(c) \cap t0 # {} /\ c # ch}
             res == select_eligible_qubit(s, n, ch, matched_channels, t0,
                                          first)
             path_ids == intersect_tmp_path_ids(t0, epr_at(s, n, res).tmp)
         IN  IF res = NoChannel THEN s
             ELSE IF path_ids = {}
                  THEN [s EXCEPT !.fail = "Exception: Cannot select path ID"]
                  ELSE do_swapping(sch, s, n, ch, res,
                                   CHOOSE x \in path_ids :
                                       \A y \in path_ids :
                                           IF first THEN x <= y ELSE x >= y)

\* mux.qubit_is_eligible of the scheme in use, on a qubit that enters
\* ELIGIBLE.
qubit_is_eligible(sch, s, n, ch, p, first) ==
    LET s1 == [s EXCEPT !.qm[<<n, ch>>].state = "ELIGIBLE"]
    IN  IF sch = "dynamic" THEN qubit_is_eligible_fib(sch, s1, n, ch, p, first)
        ELSE qubit_is_eligible_stat(sch, s1, n, ch, first)

\* fw.qubit_is_purif with no purification configured: the qubit enters
\* ELIGIBLE when its partner's rank is at least the node's own.
qubit_is_purif(sch, s, n, ch, p, first) ==
    IF eval_swapping_conditions(PathVector(p), AsapSwap, n,
                                partner_of(s.qm[<<n, ch>>].epr, n))
    THEN qubit_is_eligible(sch, s, n, ch, p, first)
    ELSE s

\* The path is selected for every endpoint that handles the EPR.
needs_path_always(tmp) == TRUE

\* MuxSchemeDynamicEpr.qubit_is_entangled: epr.tmp_path_ids is None.
needs_path(tmp) == tmp = NoneIds

\* mux.qubit_is_entangled(qubit, neighbor) of the scheme in use; sel is the
\* path that path_select_fn returns when it is called.
mux_qubit_is_entangled(sch, s, n, ch, sel, first) ==
    LET neighbor == partner_of(s.qm[<<n, ch>>].epr, n)
    IN  IF sch = "dynamic"
        THEN LET s1 == IF needs_path(s.etg_tmp[ch])
                       THEN [s EXCEPT !.etg_tmp[ch] = {sel},
                                      !.n_select[ch] = @ + 1]
                       ELSE s
                 s2 == [s1 EXCEPT !.qm[<<n, ch>>].state = "PURIF"]
             IN  qubit_is_purif(sch, s2, n, ch,
                                CHOOSE x \in s2.etg_tmp[ch] : TRUE, first)
        ELSE LET s1 == [s EXCEPT !.etg_tmp[ch] = qchannel_paths_map(ch)]
             IN  IF can_enter_purif(node_name(n), node_name(neighbor))
                 THEN qubit_is_eligible(
                          sch, [s1 EXCEPT !.qm[<<n, ch>>].state = "PURIF"],
                          n, ch, 0, first)
                 ELSE s1

\* The SWAP_UPDATE of a swap made in parallel with the node's own: unless the
\* scheme finds a conflict, the node joins the EPR of the message with the
\* other input of its own swap and informs that input's partner.
parallel_swap(sch, s, n, m, rec) ==
    IF m.path_id \notin rec.my_new.tmp
    THEN IF sch = "dynamic"
         THEN [s EXCEPT !.fail =
                  "Exception: Unexpected conflictual parallel swapping"]
         ELSE s
    ELSE LET r == su_parallel_succeeded(sch, m.new_epr.tmp, rec.other.tmp)
             merged == [name |-> m.new_epr.name \cup rec.other.name,
                        src |-> partner_of(m.new_epr, n),
                        dst |-> partner_of(rec.other, n), tmp |-> r.tmp]
         IN  IF r.fail # "" THEN [s EXCEPT !.fail = r.fail]
             ELSE [s EXCEPT
                     !.su = @ \cup
                         {[destination |-> partner_of(rec.other, n),
                           path_id |-> m.path_id,
                           swapping_node |-> m.swapping_node,
                           epr |-> rec.my_new.name, new_epr |-> merged]},
                     !.log = @ \cup
                         {[kind |-> "merge", node |-> n,
                           a |-> m.new_epr.tmp, b |-> rec.other.tmp,
                           new |-> r.tmp]}]

\* The forwarder's handler of a SWAP_UPDATE at its destination: the qubit
\* that holds the old EPR gets the new one and is evaluated again; a message
\* about an EPR the node swapped itself is a parallel swap; any other
\* message is dropped.
mux_swap_update(sch, s, n, m, first) ==
    LET held == {c \in ChannelsOf(n) : s.qm[<<n, c>>].epr.name = m.epr}
        recs == {r \in s.par[n] : r.shared = m.epr}
    IN  IF held # {}
        THEN LET c  == CHOOSE x \in held : TRUE
                 s1 == [s EXCEPT !.qm[<<n, c>>] =
                           [state |-> "PURIF", epr |-> m.new_epr]]
             IN  IF sch = "dynamic"
                 THEN qubit_is_purif(sch, s1, n, c, m.path_id, first)
                 ELSE IF can_enter_purif(
                             node_name(n),
                             node_name(partner_of(m.new_epr, n)))
                      THEN qubit_is_eligible(sch, s1, n, c, m.path_id, first)
                      ELSE s1
        ELSE IF recs # {}
             THEN parallel_swap(sch, s, n, m, CHOOSE r \in recs : TRUE)
             ELSE s

\* The handler's result becomes the next state.
MuxCommit(s) ==
    /\ etg_tmp' = s.etg_tmp
    /\ n_select' = s.n_select
    /\ qm' = s.qm
    /\ su' = s.su
    /\ parallel_swappings' = s.par
    /\ swapLog' = s.log
    /\ e2e' = s.e2e
    /\ mux_failed' = s.fail

\* Both paths installed on the dumbbell with one of the two schemes.
InitMux ==
    /\ InitPool
    /\ FwIdle
    /\ SyncIdle
    /\ scheme \in {"dynamic", "statistical"}
    /\ provided = {}
    /\ etg_tmp = [ch \in Channels |-> NoneIds]
    /\ n_select = [ch \in Channels |-> 0]
    /\ qm = [q \in {x \in MuxNodes \X Channels : x[1] \in {x[2][1], x[2][2]}}
                 |-> Released]
    /\ etgEv = {}
    /\ su = {}
    /\ parallel_swappings = [n \in MuxNodes |-> {}]
    /\ swapLog = {}
    /\ e2e = {}
    /\ mux_failed = ""
    /\ PostMuxIdle

\* The EPRs arrive at three times, 2 ms or more apart: n2-n1, then n1-n3,
\* and the four edge EPRs together, before or after those two.
MayProvide(ch) ==
    /\ ch \notin provided
    /\ etgEv = {} \/ (ch \in EdgeChannels /\ provided \cap EdgeChannels # {})
    /\ su = {} \/ (ch \in EdgeChannels /\ provided \cap EdgeChannels # {})
    /\ ch = <<2, 1>> => provided \cap EdgeChannels \in {{}, EdgeChannels}
    /\ ch = <<1, 3>> => <<2, 1>> \in provided
    /\ ch \in EdgeChannels =>
           \/ <<2, 1>> \notin provided
           \/ <<1, 3>> \in provided

\* provide_entanglements: the qchannel's EPR is stored in both memories and
\* both forwarders are notified.
MuxProvide(ch) ==
    /\ mux_failed = ""
    /\ MayProvide(ch)
    /\ provided' = provided \cup {ch}
    /\ qm' = [qm EXCEPT
                ![<<ch[1], ch>>] = [state |-> "ENTANGLED",
                                    epr |-> Elementary(ch)],
                ![<<ch[2], ch>>] = [state |-> "ENTANGLED",
                                    epr |-> Elementary(ch)]]
    /\ etgEv' = etgEv \cup {[node |-> ch[1], ch |-> ch],
                            [node |-> ch[2], ch |-> ch]}
    /\ UNCHANGED <<scheme, etg_tmp, n_select, su, parallel_swappings,
                   swapLog, e2e, mux_failed, poolVars, fwVars, syncVars,
                   postMuxVars>>

\* The forwarder handles a QubitEntangledEvent.
MuxQubitEntangled(ev, sel, first) ==
    /\ mux_failed = ""
    /\ ev \in etgEv
    /\ sel \in qchannel_paths_map(ev.ch)
    /\ etgEv' = etgEv \ {ev}
    /\ MuxCommit(mux_qubit_is_entangled(scheme, MuxHandler, ev.node, ev.ch,
                                        sel, first))
    /\ UNCHANGED <<scheme, provided, poolVars, fwVars, syncVars,
                   postMuxVars>>

\* A SWAP_UPDATE reaches its destination, after the events of the time it
\* was sent at and behind the earlier messages about the EPR it names.
MuxSwapUpdate(m, first) ==
    /\ mux_failed = ""
    /\ m \in su
    /\ etgEv = {}
    /\ provided \cap EdgeChannels \in {{}, EdgeChannels}
    /\ ~\E m1 \in su :
           m1.destination = m.destination /\ m1.new_epr.name = m.epr
    /\ MuxCommit(mux_swap_update(scheme, [MuxHandler EXCEPT !.su = @ \ {m}],
                                 m.destination, m, first))
    /\ UNCHANGED <<scheme, provided, etgEv, poolVars, fwVars, syncVars,
                   postMuxVars>>

NextMux ==
    \/ \E ch \in Channels : MuxProvide(ch)
    \/ \E ev \in etgEv, sel \in PathIds, first \in BOOLEAN :
           MuxQubitEntangled(ev, sel, first)
    \/ \E m \in su, first \in BOOLEAN : MuxSwapUpdate(m, first)

\* The dumbbell with one EPR per qchannel under either scheme, for every
\* path selection and both arrival orders.
SpecMux == InitMux /\ [][NextMux]_vars

\* ========================================= Part VI: wait-time cut-off
\* Times are in units of 0.1 ms, as in Part III.

\* The wait budget of every node: swap_cutoff = 0.5 s.
WaitBudget == 5000

\* The simulated time ends after the last deadline a run can set.
CutHorizon == 11000

\* The times at which a qchannel may deliver its elementary EPR: early, and
\* shortly before the deadline of a qubit that waits since the early time.
CutArrivals == {10, 5007}

\* The swap sequences of the 4-node path: sequential and ASAP.
CutSequences == {<<2, 0, 1, 2>>, <<1, 0, 0, 1>>}

\* fib_entry.swap_cutoff: the wait budget of each route node.
swap_cutoff(rt) == [i \in 1 .. Len(rt) |-> WaitBudget]

\* qubit.cutoff is None.
NoCutoff == [since |-> -1, deadline |-> -1]

\* The deadline set to the time the qubit became eligible.
wait_deadline_none(t, wait_budget) == t

\* CutoffSchemeWaitTime.qubit_is_eligible: deadline = now + wait_budget.
wait_deadline(t, wait_budget) == t + wait_budget

\* CutoffSchemeWaitTime.qubit_is_eligible: qubit.cutoff = (now, deadline).
cutoff_qubit_is_eligible(t, wait_budget) ==
    [since |-> t, deadline |-> wait_deadline(t, wait_budget)]

\* qubit.cutoff of every qubit after a handler changed the memories from m0
\* to m1 at time t: a qubit that entered ELIGIBLE, or was evaluated again
\* with a new EPR, and still waits has its deadline set
\* (qubit_is_eligible); a qubit that was swapped, consumed or released has
\* none (take_qubit).
cutoff_after(rt, m0, m1, c, t) ==
    [q \in DOMAIN c |->
        IF m1[q].state = "ELIGIBLE" /\ m1[q].epr # NoEpr
        THEN IF m0[q].state = "ELIGIBLE" /\ m0[q].epr = m1[q].epr
             THEN c[q]
             ELSE cutoff_qubit_is_eligible(
                      t, swap_cutoff(rt)[index(rt, q[1])])
        ELSE NoCutoff]

\* CutoffSchemeWaitTime.filter_swap_candidate of a qubit with cut-off c.
filter_swap_candidate(c, t) == c = NoCutoff \/ c.deadline >= t

\* take_qubit that clears the cut-off window and leaves the release event
\* in the pool.
take_qubit_keep_event(c, evs, q) ==
    [cutoff |-> [c EXCEPT ![q] = NoCutoff], events |-> evs]

\* CutoffSchemeWaitTime.take_qubit: without a cut-off window nothing
\* happens; with one, the release event the qubit points to is canceled
\* and the window cleared.
take_qubit(c, evs, q) ==
    IF c[q] = NoCutoff
    THEN [cutoff |-> c, events |-> evs]
    ELSE [cutoff |-> [c EXCEPT ![q] = NoCutoff],
          events |-> {e \in evs : e.qubit # q}]

\* The release events in the pool after a handler changed the memories
\* from m0 to m1 at time t: qubit_is_eligible adds the event of the new
\* deadline and qubit.set_event cancels the one the qubit pointed to;
\* take_qubit for a qubit that was swapped, consumed or released.
cut_events_after(rt, m0, m1, c, evs, t) ==
    UNION {IF m1[q].state = "ELIGIBLE" /\ m1[q].epr # NoEpr
           THEN IF m0[q].state = "ELIGIBLE" /\ m0[q].epr = m1[q].epr
                THEN {e \in evs : e.qubit = q}
                ELSE {[qubit |-> q, epr |-> m1[q].epr.name,
                       t |-> wait_deadline(
                                 t, swap_cutoff(rt)[index(rt, q[1])])]}
           ELSE {e \in take_qubit(c, evs, q).events : e.qubit = q}
           : q \in DOMAIN c}

\* The 4-node path with a wait budget at every node.
InitCutoff ==
    /\ InitPool
    /\ route = <<1, 2, 3, 4>>
    /\ swap_sequence \in CutSequences
    /\ Installed
    /\ SyncIdle
    /\ MuxIdle
    /\ cutoff = [q \in Nodes \X Sides |-> NoCutoff]
    /\ n_cutoff = [n \in Nodes |-> [primary |-> 0, secondary |-> 0]]
    /\ cut_events = {}
    /\ PostCutIdle

\* The qchannel l delivers its one elementary EPR at one of the arrival
\* times.
CutProvide(l) ==
    /\ now \in CutArrivals
    /\ Provide(l)

\* The forwarder handles a QubitEntangledEvent; the cut-off scheme follows
\* the qubits that enter and leave ELIGIBLE.
CutQubitEntangled(ev) ==
    /\ crashed = ""
    /\ ev \in entangledEv
    /\ entangledEv' = entangledEv \ {ev}
    /\ LET s == qubit_is_entangled(route, swap_sequence, Handler, ev)
       IN  /\ Commit(s)
           /\ cutoff' = cutoff_after(route, mem, s.mem, cutoff, now)
           /\ cut_events' = cut_events_after(route, mem, s.mem, cutoff,
                                              cut_events, now)
    /\ lastSU' = NoSU
    /\ UNCHANGED <<route, swap_sequence, negoc, avail, etg_count, nDecohered,
                   n_cutoff, poolVars, syncVars, muxVars,
                   postCutVars>>

\* A SWAP_UPDATE arrives at its next hop at its arrival time.
CutSwapUpdate(m) ==
    /\ crashed = ""
    /\ m \in msgs
    /\ m \in DOMAIN arrive
    /\ arrive[m] = now
    /\ LET n  == m.at
           s0 == [Handler EXCEPT !.msgs = @ \ {m}]
           s  == IF m.destination = n
                 THEN su_at_destination(route, swap_sequence, s0, n, m, TRUE)
                 ELSE su_forward(route, s0, n, m)
       IN  /\ Commit(s)
           /\ cutoff' = cutoff_after(route, mem, s.mem, cutoff, now)
           /\ cut_events' = cut_events_after(route, mem, s.mem, cutoff,
                                              cut_events, now)
           /\ lastSU' = IF m.destination = n
                        THEN [node |-> n, old |-> m.epr, epr |-> m.new_epr,
                              partner |-> m.partner, cycle |-> m.cycle]
                        ELSE NoSU
    /\ UNCHANGED <<route, swap_sequence, entangledEv, negoc, avail,
                   etg_count, nDecohered, n_cutoff, poolVars, syncVars,
                   muxVars, postCutVars>>

\* CutoffSchemeWaitTime._release_qubit, the event set for the deadline: the
\* EPR is read from the node's memory and from the partner's, the qubit is
\* released and counted, and so is the partner's when it held the EPR.
release_qubit(n, side) ==
    /\ crashed = ""
    /\ \E e \in cut_events : e.qubit = <<n, side>> /\ e.t = now
    /\ LET epr     == mem[<<n, side>>].epr
           partner == IF epr.src = n THEN epr.dst ELSE epr.src
           pside   == get_memory_qubit(route, mem, partner, epr.name)
           m1      == set_state(mem_read(mem, n, side), n, side,
                                to_release(mem[<<n, side>>].state))
           m2      == IF pside = "none" THEN m1
                      ELSE set_state(mem_read(m1, partner, pside), partner,
                                     pside,
                                     to_release(m1[<<partner, pside>>].state))
           left    == {e \in cut_events :
                          ~(e.qubit = <<n, side>> /\ e.t = now)}
       IN  IF epr = NoEpr
           THEN /\ crashed' = "ValueError: memory.read(must=True)"
                /\ cut_events' = left
                /\ UNCHANGED <<mem, n_cutoff, releasedEv, cutoff>>
           ELSE /\ mem' = m2
                /\ n_cutoff' =
                       [n_cutoff EXCEPT
                           ![n].primary = @ + 1,
                           ![partner].secondary =
                               IF pside = "none" THEN @ ELSE @ + 1]
                /\ releasedEv' = releasedEv \cup
                       {[node |-> n, side |-> side]} \cup
                       {[node |-> partner, side |-> s] :
                            s \in {pside} \ {"none"}}
                /\ cutoff' = cutoff_after(route, mem, m2, cutoff, now)
                /\ cut_events' = cut_events_after(route, mem, m2, cutoff,
                                                   left, now)
                /\ crashed' = crashed
    /\ lastSwap' = NoSwap
    /\ lastSU' = NoSU
    /\ UNCHANGED <<route, swap_sequence, swapped_self, received_swaps,
                   entangledEv, negoc, avail, msgs, etg_count, nDecohered,
                   cnt, consumed, failedInputs, poolVars, syncVars,
                   muxVars, postCutVars>>

\* The times of the release events in the pool.
deadlines == {e.t : e \in cut_events}

\* The times of the events the simulator still holds, and the later arrival
\* times.
cut_due_times ==
    {arrival_times[m] : m \in msgs} \cup deadlines
        \cup {t \in CutArrivals : t > now}

\* Simulator.run takes the next event of the pool: the clock moves to the
\* earliest pending time once nothing is left to do at the current time.
CutAdvance ==
    /\ crashed = ""
    /\ entangledEv = {}
    /\ now \notin deadlines
    /\ \A m \in msgs : m \in DOMAIN arrive => arrive[m] > now
    /\ cut_due_times # {}
    /\ LET next == CHOOSE t \in cut_due_times :
                       \A u \in cut_due_times : t <= u
       IN  /\ next <= CutHorizon
           /\ now' = next
    /\ arrive' = arrival_times
    /\ lastSwap' = NoSwap
    /\ lastSU' = NoSU
    /\ UNCHANGED <<route, swap_sequence, swapped_self, received_swaps, mem,
                   entangledEv, releasedEv, negoc, avail, msgs, etg_count,
                   nDecohered, crashed, cnt, consumed, failedInputs,
                   sequence, phase, end_time, waiting_etg, poolVars,
                   postSyncVars>>

NextCutoff ==
    \/ \E l \in Links : CutProvide(l)
    \/ \E ev \in entangledEv : CutQubitEntangled(ev)
    \/ \E m \in msgs : CutSwapUpdate(m)
    \/ \E n \in Nodes, side \in Sides : release_qubit(n, side)
    \/ CutAdvance

\* The 4-node path with wait-time cut-off, one EPR per qchannel at most.
SpecCutoff == InitCutoff /\ [][NextCutoff]_vars

\* ======================================== Part VII: the quantum memory
\* One QuantumMemory with its simulator clock and the decoherence events it
\* schedules. Times are time slots.

\* capacity: the number of slots; slot idx holds MemoryQubit(addr = idx).
MemCapacity == 2

\* T_coh = 1 / decoherence_rate, in time slots.
TCoh == 2

\* The end time slot of the simulation.
MemEnd == 3

\* The EPRs stored by write in a run.
MaxWrites == 2

Addrs == 0 .. (MemCapacity - 1)

\* The EPR objects of a run.
Objs == {1, 2}

\* The slot content None.
NoObj == 0

\* _store_time[idx] is None.
NoTime == -1

\* qubit.pid is None, and the argument pid = None.
NoPid == 0

\* The argument address = None.
NoAddress == -1

\* The index -1 of _search, and the return value None.
NoSlot == -1

\* The path ids qubits are allocated to, and one more.
MemPids == {1, 2}

\* QuantumModel.name: the names of distinct EPRs differ (uuid).
name_of(o) == <<"epr", o>>

\* The smallest and the largest member of a set of integers.
min_of(S) == CHOOSE x \in S : \A y \in S : x <= y

max_of(S) == CHOOSE x \in S : \A y \in S : x >= y

\* The empty slots that pass the pid and address filters of write.
empty_matching(st, pid, address) ==
    {i \in Addrs :
        /\ st[i].epr = NoObj
        /\ (pid = NoPid \/ st[i].pid = pid)
        /\ (address = NoAddress \/ i = address)}

\* The loop of write that keeps running after the first match.
write_slot_last(st, pid, address) ==
    IF empty_matching(st, pid, address) = {} THEN NoSlot
    ELSE max_of(empty_matching(st, pid, address))

\* QuantumMemory.write, the loop: the first empty slot that passes the
\* filters, or -1.
write_slot(st, pid, address) ==
    IF empty_matching(st, pid, address) = {} THEN NoSlot
    ELSE min_of(empty_matching(st, pid, address))

\* QuantumMemory.is_full
is_full(u) == MemCapacity > 0 /\ u >= MemCapacity

\* The decoherence event set one slot late.
decohere_time_late(t) == t + TCoh + 1

\* QuantumMemory.write: t = tc + Time(sec = 1 / decoherence_rate).
decohere_time(t) == t + TCoh

\* QuantumMemory._search: the index of the slot a key or address selects,
\* or -1. An address selects the slot of that qubit whatever it holds; an
\* index selects a slot that holds something; an object or a name selects
\* the first slot that holds it.
search(st, kind, key) ==
    IF kind = "address"
    THEN IF key \in Addrs THEN key ELSE NoSlot
    ELSE IF kind = "index"
    THEN IF key >= 0 /\ key < MemCapacity /\ st[key].epr # NoObj
         THEN key ELSE NoSlot
    ELSE IF kind = "object"
    THEN LET c == {i \in Addrs : st[i].epr # NoObj /\ st[i].epr = key}
         IN  IF c = {} THEN NoSlot ELSE min_of(c)
    ELSE IF kind = "name"
    THEN LET c == {i \in Addrs :
                      st[i].epr # NoObj /\ name_of(st[i].epr) = key}
         IN  IF c = {} THEN NoSlot ELSE min_of(c)
    ELSE NoSlot

\* QuantumMemory.read on storage st with usage u: the new storage and usage,
\* the slot and the EPR returned, and the exception raised. _usage is
\* decremented and the slot emptied before the store time is used.
read(st, u, kind, key) ==
    LET idx == search(st, kind, key)
    IN  IF idx = NoSlot
        THEN [storage |-> st, usage |-> u, ret |-> NoSlot, data |-> NoObj,
              stored |-> NoTime, exc |-> ""]
        ELSE [storage |-> [st EXCEPT ![idx].epr = NoObj,
                                     ![idx].store_time = NoTime],
              usage |-> u - 1,
              ret |-> IF st[idx].store_time = NoTime THEN NoSlot ELSE idx,
              data |-> IF st[idx].store_time = NoTime THEN NoObj
                       ELSE st[idx].epr,
              stored |-> st[idx].store_time,
              exc |-> IF st[idx].store_time = NoTime
                      THEN "AttributeError: NoneType has no attribute sec"
                      ELSE ""]

\* The keys a caller may pass to read and get.
ReadKeys ==
    ({"address"} \X (0 .. MemCapacity))
        \cup ({"index"} \X (-1 .. MemCapacity))
        \cup ({"object"} \X Objs)
        \cup ({"name"} \X {name_of(o) : o \in Objs})
        \cup {<<"none", NoObj>>}

\* The EPRs the memory holds.
stored_objs == {storage[i].epr : i \in Addrs} \ {NoObj}

\* No operation yet.
NoOp == [op |-> "none", ret |-> NoSlot, data |-> NoObj, stored |-> NoTime]

\* QuantumMemory.__init__ with some qubits allocated to a path, at time 0.
InitMem ==
    /\ InitPool
    /\ FwIdle
    /\ SyncIdle
    /\ MuxIdle
    /\ CutIdle
    /\ storage \in [Addrs -> [pid : {NoPid, 1}, epr : {NoObj},
                              store_time : {NoTime}]]
    /\ usage = 0
    /\ sim_tc = 0
    /\ sim_events = {}
    /\ n_added = 0
    /\ last = NoOp
    /\ mem_crashed = ""
    /\ PostMemIdle

\* QuantumMemory.write(qm, pid, address) at the current time.
MemWrite(obj, pid, address) ==
    /\ mem_crashed = ""
    /\ obj \notin stored_objs
    /\ LET idx == IF is_full(usage) THEN NoSlot
                  ELSE write_slot(storage, pid, address)
           t   == decohere_time(sim_tc)
       IN  /\ idx # NoSlot => n_added < MaxWrites
           /\ last' = [NoOp EXCEPT !.op = "write", !.ret = idx]
           /\ IF idx = NoSlot
              THEN UNCHANGED <<storage, usage, sim_events, n_added>>
              ELSE /\ storage' = [storage EXCEPT ![idx].epr = obj,
                                                 ![idx].store_time = sim_tc]
                   /\ usage' = usage + 1
                   /\ n_added' = n_added + 1
                   /\ sim_events' =
                          IF add_event_accepts(t, sim_tc, MemEnd)
                          THEN sim_events \cup
                                   {[id |-> n_added + 1, t |-> t,
                                     epr |-> obj, qubit |-> idx]}
                          ELSE sim_events
    /\ UNCHANGED <<sim_tc, mem_crashed, poolVars, fwVars,
                   syncVars, muxVars, cutVars,
                   postMemVars>>

\* QuantumMemory.read(key, address) at the current time.
MemRead(k) ==
    /\ mem_crashed = ""
    /\ LET r == read(storage, usage, k[1], k[2])
       IN  /\ storage' = r.storage
           /\ usage' = r.usage
           /\ mem_crashed' = r.exc
           /\ last' = [NoOp EXCEPT !.op = "read", !.ret = r.ret,
                                   !.data = r.data, !.stored = r.stored]
    /\ UNCHANGED <<sim_tc, sim_events, n_added, poolVars, fwVars,
                   syncVars, muxVars, cutVars,
                   postMemVars>>

\* The simulator runs a decoherence event: QuantumMemory.decohere_qubit
\* reads the EPR by the object; last.ret tells whether it was found and
\* the link layer notified.
decohere_qubit(ev) ==
    /\ mem_crashed = ""
    /\ ev \in sim_events
    /\ ev.t = sim_tc
    /\ sim_events' = sim_events \ {ev}
    /\ LET r == read(storage, usage, "object", ev.epr)
       IN  /\ storage' = r.storage
           /\ usage' = r.usage
           /\ mem_crashed' = r.exc
           /\ last' = [NoOp EXCEPT !.op = "decohere", !.ret = r.ret,
                                   !.data = r.data, !.stored = r.stored]
    /\ UNCHANGED <<sim_tc, n_added, poolVars, fwVars, syncVars, muxVars,
                   cutVars, postMemVars>>

\* The simulator takes the next event: the clock moves to a later time
\* slot, not past the end of the run nor past an event it still holds.
MemAdvance(t) ==
    /\ mem_crashed = ""
    /\ t > sim_tc
    /\ t <= MemEnd
    /\ \A ev \in sim_events : ev.t >= t
    /\ sim_tc' = t
    /\ last' = [NoOp EXCEPT !.op = "advance"]
    /\ UNCHANGED <<storage, usage, sim_events, n_added,
                   mem_crashed, poolVars, fwVars, syncVars, muxVars,
                   cutVars, postMemVars>>

NextMem ==
    \/ \E obj \in Objs, pid \in {NoPid} \cup MemPids,
          address \in {NoAddress} \cup Addrs : MemWrite(obj, pid, address)
    \/ \E k \in ReadKeys : MemRead(k)
    \/ \E ev \in sim_events : decohere_qubit(ev)
    \/ \E t \in 1 .. MemEnd : MemAdvance(t)

\* One memory used by its callers and by the simulator.
SpecMem == InitMem /\ [][NextMem]_vars
\* ================================= Part VIII: the phases of SYNC timing
\* TimingModeSync on its own, with a ROUTING phase when t_rtg > 0. Times
\* are time slots counted from the simulator start time ts = 0.

\* The end of the simulated time.
TimingEnd == 9

\* network.all_nodes
TimingNodes == {1, 2, 3}

\* The phase durations a network is configured with.
TimingConfigs == [t_ext : {1, 2}, t_rtg : {0, 1, 2}, t_int : {1, 2}]

\* TimingModeSync.__init__ that appends the ROUTING phase whatever t_rtg is.
sync_sequence_always(t_ext, t_rtg, t_int) ==
    <<[phase |-> "EXTERNAL", duration |-> t_ext],
      [phase |-> "ROUTING", duration |-> t_rtg],
      [phase |-> "INTERNAL", duration |-> t_int]>>

\* TimingModeSync.__init__: the deque of phases, ROUTING only if t_rtg > 0.
sync_sequence(t_ext, t_rtg, t_int) ==
    <<[phase |-> "EXTERNAL", duration |-> t_ext]>>
        \o (IF t_rtg > 0 THEN <<[phase |-> "ROUTING", duration |-> t_rtg]>>
            ELSE <<>>)
        \o <<[phase |-> "INTERNAL", duration |-> t_int]>>

\* No TimingPhaseEvent was delivered yet.
NoSignal == [phase |-> "none", t |-> -1, nodes |-> {}]

\* TimingModeSync.__init__ and install: the phase is the last of the
\* sequence, end_time is ts and the first signal is scheduled at ts.
InitTiming ==
    /\ InitPool
    /\ FwIdle
    /\ MuxIdle
    /\ CutIdle
    /\ MemIdle
    /\ timing \in TimingConfigs
    /\ sequence = sync_sequence(timing.t_ext, timing.t_rtg, timing.t_int)
    /\ phase = sequence[Len(sequence)].phase
    /\ end_time = 0
    /\ now = 0
    /\ waiting_etg = <<>>
    /\ arrive = <<>>
    /\ signalled = NoSignal
    /\ PostTmIdle

\* TimingModeSync.signal_phase, the event scheduled at end_time: the deque
\* is rotated, the next signal is scheduled at the new end_time and every
\* node of the network handles the TimingPhaseEvent.
TimingSignal ==
    /\ now = end_time
    /\ LET this_phase == Head(sequence)
       IN  /\ sequence' = Append(Tail(sequence), this_phase)
           /\ phase' = this_phase.phase
           /\ end_time' = now + this_phase.duration
           /\ signalled' = [phase |-> this_phase.phase, t |-> now,
                            nodes |-> {n \in TimingNodes : TRUE}]
    /\ UNCHANGED <<now, timing, waiting_etg, arrive, poolVars, fwVars,
                   muxVars, cutVars, memVars, postTmVars>>

\* The simulator pops the next event: an event of some other entity before
\* the next signal, or the signal itself at end_time.
TimingAdvance(t) ==
    /\ t > now
    /\ t <= end_time
    /\ t <= TimingEnd
    /\ now' = t
    /\ UNCHANGED <<sequence, phase, end_time, timing, signalled, waiting_etg,
                   arrive, poolVars, fwVars, muxVars, cutVars, memVars,
                   postTmVars>>

NextTiming ==
    \/ TimingSignal
    \/ \E t \in 1 .. TimingEnd : TimingAdvance(t)

\* The phase signals of a network under SYNC timing.
SpecTiming == InitTiming /\ [][NextTiming]_vars

\* ================================ Part IX: the link-layer reservation
\* One quantum channel with its two memories: the memory of the initiator
\* (the upstream end, which has the channel in active_channels) and the
\* memory of the receiver. Events are kept in the simulator's order: by
\* time, and by insertion among equal times. The forwarder is the
\* environment: it may free or replace any qubit it has been notified of,
\* at any time.

\* The end time slot of the simulation.
LinkEnd == 16

\* The EPRs of a run: generated by the link layer or written by a
\* SWAP_UPDATE.
MaxLinkEpr == 3

\* tau = length / light_speed, the delay of the quantum and of the classic
\* channel, in time slots.
LinkTau == 1

\* t_mem = 1 / decoherence_rate, in time slots.
LinkTCoh == 3

\* attempt_duration = max(4.5 * tau, 1 / frequency), in time slots.
AttemptDuration == 5

\* The values of k = np.random.geometric(p) of a run.
AttemptCounts == {1, 2}

\* The two ends of the channel.
Ends == {"init", "recv"}

\* qubit.active is None.
NoKey == 0

\* The path id of every slot: a qubit is allocated to path 1 or to none.
LinkPids == [Addrs -> {NoPid, 1}]

\* An event or a packet in the event pool.
LLEv(t, kind, end, addr, key, pid, epr) ==
    [t |-> t, kind |-> kind, end |-> end, addr |-> addr, key |-> key,
     pid |-> pid, epr |-> epr]

\* Simulator.add_event on a pool with end slot LinkEnd: the event goes
\* behind the events of the same time.
ll_add(q, e) ==
    IF e.t > LinkEnd THEN q
    ELSE LET k == Cardinality({i \in 1 .. Len(q) : q[i].t <= e.t})
         IN  SubSeq(q, 1, k) \o <<e>> \o SubSeq(q, k + 1, Len(q))

\* start_negociation: the key names the initiator's qubit (own node, next
\* hop, path id and address; the first three are fixed per qubit).
negoc_key(addr) == addr + 1

\* QuantumMemory.count on a memory whose reads found what they read.
ll_usage(st) == Cardinality({i \in Addrs : st[i].epr # NoObj})

\* memory.search_path_qubits(path_id): the qubits of the path that are
\* empty and not reserved.
search_path_qubits(st, pid) ==
    {i \in Addrs : st[i].pid = pid /\ st[i].epr = NoObj
                    /\ st[i].active = NoKey}

\* memory.write(qm, pid, key): the first empty slot of the path that is
\* reserved under the key, or -1.
write_keyed_slot(st, pid, key) ==
    LET S == {i \in empty_matching(st, pid, NoAddress) : st[i].active = key}
    IN  IF is_full(ll_usage(st)) \/ S = {} THEN NoSlot ELSE min_of(S)

\* memory.write(qm, address): the slot of that address if it is empty,
\* or -1.
write_addr_slot(st, address) ==
    IF is_full(ll_usage(st)) THEN NoSlot ELSE write_slot(st, NoPid, address)

\* A receiver that answers epr_ok without a free qubit.
epr_init_reply_always(st, pid, key) ==
    [ok |-> TRUE,
     st |-> IF search_path_qubits(st, pid) = {} THEN st
            ELSE [st EXCEPT ![min_of(search_path_qubits(st, pid))].active
                               = key]]

\* handle_negociation (epr_init) and check_pending_epr_init: with a free
\* qubit of the path, reserve the first one under the key and answer
\* epr_ok; without one, answer nothing.
epr_init_reply(st, pid, key) ==
    IF search_path_qubits(st, pid) = {}
    THEN [ok |-> FALSE, st |-> st]
    ELSE [ok |-> TRUE,
          st |-> [st EXCEPT ![min_of(search_path_qubits(st, pid))].active
                               = key]]

\* handle_active_channel on the installed channel: one start_negociation
\* per empty qubit, 1 / attempt_rate apart (less than a time slot).
InitLink ==
    /\ InitPool
    /\ FwIdle
    /\ SyncIdle
    /\ MuxIdle
    /\ CutIdle
    /\ MemIdle
    /\ TimingIdle
    /\ PostLlIdle
    /\ \E pi \in LinkPids, pr \in LinkPids :
           ll_mem = [e \in Ends |-> [a \in Addrs |->
                        [pid |-> IF e = "init" THEN pi[a] ELSE pr[a],
                         epr |-> NoObj, active |-> NoKey, known |-> FALSE]]]
    /\ ll_now = 0
    /\ ll_queue = [a \in 1 .. MemCapacity |->
                      LLEv(0, "start_negociation", "init", a - 1,
                           negoc_key(a - 1), ll_mem["init"][a - 1].pid,
                           NoObj)]
    /\ pending_negoc = {}
    /\ fifo_epr_init = <<>>
    /\ ll_n_epr = 0
    /\ ll_crashed = ""

\* The event the simulator pops next, when it is due now.
LLDue(kind) ==
    /\ ll_crashed = ""
    /\ Len(ll_queue) > 0
    /\ Head(ll_queue).t = ll_now
    /\ Head(ll_queue).kind = kind

\* The variables of the other parts.
LLOther == <<poolVars, fwVars, syncVars, muxVars, cutVars, memVars, tmVars,
             postLlVars>>

\* start_negociation(next_hop, qchannel, qubit, path_id), after the event e
\* was popped from the pool q.
start_negociation(e, q) ==
    IF e.key \in pending_negoc
    THEN /\ ll_crashed' = "Exception: negociation already init"
         /\ ll_queue' = q
         /\ UNCHANGED <<ll_mem, pending_negoc>>
    ELSE /\ ll_mem' = [ll_mem EXCEPT !["init"][e.addr].active = e.key]
         /\ pending_negoc' = pending_negoc \cup {e.key}
         /\ ll_queue' = ll_add(q, LLEv(ll_now + LinkTau, "epr_init", "recv",
                                       e.addr, e.key, e.pid, NoObj))
         /\ ll_crashed' = ll_crashed

\* The scheduled start_negociation of handle_active_channel.
LLStartNegociation ==
    /\ LLDue("start_negociation")
    /\ start_negociation(Head(ll_queue), Tail(ll_queue))
    /\ UNCHANGED <<ll_now, fifo_epr_init, ll_n_epr, LLOther>>

\* handle_negociation, cmd = epr_init, at the receiver.
LLEprInit ==
    /\ LLDue("epr_init")
    /\ LET e == Head(ll_queue)
           r == epr_init_reply(ll_mem["recv"], e.pid, e.key)
       IN  /\ ll_mem' = [ll_mem EXCEPT !["recv"] = r.st]
           /\ IF r.ok
              THEN /\ ll_queue' = ll_add(Tail(ll_queue),
                          LLEv(ll_now + LinkTau, "epr_ok", "init", e.addr,
                               e.key, e.pid, NoObj))
                   /\ UNCHANGED fifo_epr_init
              ELSE /\ ll_queue' = Tail(ll_queue)
                   /\ fifo_epr_init' = Append(fifo_epr_init, e)
    /\ UNCHANGED <<ll_now, pending_negoc, ll_n_epr, ll_crashed, LLOther>>

\* handle_negociation for epr_ok that leaves the key in pending_negoc.
LLEprOk_keep_pending(k) ==
    /\ LLDue("epr_ok")
    /\ LET e == Head(ll_queue)
       IN  ll_queue' = ll_add(Tail(ll_queue),
               LLEv(ll_now + (k - 1) * AttemptDuration + 5 * LinkTau,
                    "do_successful_attempt", "init", e.addr, e.key,
                    e.pid, NoObj))
    /\ UNCHANGED <<ll_now, ll_mem, pending_negoc, fifo_epr_init, ll_n_epr,
                   ll_crashed, LLOther>>

\* handle_negociation, cmd = epr_ok, at the initiator: generate_entanglement
\* skips ahead to the k-th attempt, which succeeds, and the negotiation is
\* no longer pending.
LLEprOk(k) ==
    /\ LLDue("epr_ok")
    /\ LET e == Head(ll_queue)
       IN  /\ ll_queue' = ll_add(Tail(ll_queue),
                  LLEv(ll_now + (k - 1) * AttemptDuration + 5 * LinkTau,
                       "do_successful_attempt", "init", e.addr, e.key,
                       e.pid, NoObj))
           /\ pending_negoc' = pending_negoc \ {e.key}
    /\ UNCHANGED <<ll_now, ll_mem, fifo_epr_init, ll_n_epr, ll_crashed,
                   LLOther>>

\* The events memory.write and the link layer add after a half was stored
\* at slot idx of an end: the decoherence timer, then what the caller adds.
ll_stored(q, end, idx, epr) ==
    ll_add(q, LLEv(ll_now + LinkTCoh, "decohere_qubit", end, idx, NoKey,
                   NoPid, epr))

\* do_successful_attempt at the initiator: store one half at the negotiated
\* address, send the other half, notify the forwarder after tau.
LLDoSuccessfulAttempt ==
    /\ LLDue("do_successful_attempt")
    /\ ll_n_epr < MaxLinkEpr
    /\ LET e   == Head(ll_queue)
           idx == write_addr_slot(ll_mem["init"], e.addr)
           epr == ll_n_epr + 1
       IN  IF idx = NoSlot
           THEN /\ ll_crashed' = "Exception: (sender) memory full"
                /\ ll_queue' = Tail(ll_queue)
                /\ UNCHANGED <<ll_mem, ll_n_epr>>
           ELSE /\ ll_mem' = [ll_mem EXCEPT !["init"][idx].epr = epr]
                /\ ll_n_epr' = epr
                /\ ll_queue' =
                     ll_add(ll_add(ll_stored(Tail(ll_queue), "init", idx, epr),
                         LLEv(ll_now + LinkTau, "RecvQubitPacket", "recv",
                              NoAddress, e.key, ll_mem["init"][idx].pid, epr)),
                         LLEv(ll_now + LinkTau, "QubitEntangledEvent", "init",
                              idx, NoKey, NoPid, epr))
                /\ ll_crashed' = ll_crashed
    /\ UNCHANGED <<ll_now, pending_negoc, fifo_epr_init, LLOther>>

\* handle_distribution at the receiver: store the arriving half in the slot
\* reserved under its key, notify the forwarder.
LLHandleDistribution ==
    /\ LLDue("RecvQubitPacket")
    /\ LET e   == Head(ll_queue)
           idx == write_keyed_slot(ll_mem["recv"], e.pid, e.key)
       IN  IF idx = NoSlot
           THEN /\ ll_crashed' = "Exception: Failed to store rcvd EPR due to full memory"
                /\ ll_queue' = Tail(ll_queue)
                /\ UNCHANGED ll_mem
           ELSE /\ ll_mem' = [ll_mem EXCEPT !["recv"][idx].epr = e.epr]
                /\ ll_queue' =
                     ll_add(ll_stored(Tail(ll_queue), "recv", idx, e.epr),
                         LLEv(ll_now, "QubitEntangledEvent", "recv", idx,
                              NoKey, NoPid, e.epr))
                /\ ll_crashed' = ll_crashed
    /\ UNCHANGED <<ll_now, pending_negoc, fifo_epr_init, ll_n_epr, LLOther>>

\* The forwarder handles the QubitEntangledEvent: from now on it may use
\* the qubit, if the memory still holds that EPR.
LLQubitEntangled ==
    /\ LLDue("QubitEntangledEvent")
    /\ LET e == Head(ll_queue)
       IN  /\ ll_mem' = [ll_mem EXCEPT ![e.end][e.addr].known =
                            (ll_mem[e.end][e.addr].epr = e.epr)]
           /\ ll_queue' = Tail(ll_queue)
    /\ UNCHANGED <<ll_now, pending_negoc, fifo_epr_init, ll_n_epr,
                   ll_crashed, LLOther>>

\* The forwarder swaps or consumes a qubit: memory.read(address) and a
\* QubitReleasedEvent for the link layer at the current time.
LLRelease(end, addr) ==
    /\ ll_crashed = ""
    /\ ll_mem[end][addr].epr # NoObj
    /\ ll_mem[end][addr].known
    /\ ll_mem' = [ll_mem EXCEPT ![end][addr].epr = NoObj,
                                ![end][addr].known = FALSE]
    /\ ll_queue' = ll_add(ll_queue,
           LLEv(ll_now, "QubitReleasedEvent", end, addr, negoc_key(addr),
                ll_mem[end][addr].pid, NoObj))
    /\ UNCHANGED <<ll_now, pending_negoc, fifo_epr_init, ll_n_epr,
                   ll_crashed, LLOther>>

\* The forwarder applies a SWAP_UPDATE at its destination: the old EPR is
\* read and the new one written at the same address.
LLSwapUpdate(end, addr) ==
    /\ ll_crashed = ""
    /\ ll_mem[end][addr].epr # NoObj
    /\ ll_mem[end][addr].known
    /\ ll_n_epr < MaxLinkEpr
    /\ ll_n_epr' = ll_n_epr + 1
    /\ ll_mem' = [ll_mem EXCEPT ![end][addr].epr = ll_n_epr + 1]
    /\ ll_queue' = ll_stored(ll_queue, end, addr, ll_n_epr + 1)
    /\ UNCHANGED <<ll_now, pending_negoc, fifo_epr_init, ll_crashed, LLOther>>

\* decohere_qubit reading the slot by the address of the timer's qubit.
LLDecohereQubit_by_address ==
    /\ LLDue("decohere_qubit")
    /\ LET e == Head(ll_queue)
       IN  IF ll_mem[e.end][e.addr].epr = NoObj
           THEN /\ ll_queue' = Tail(ll_queue)
                /\ UNCHANGED ll_mem
           ELSE /\ ll_mem' = [ll_mem EXCEPT ![e.end][e.addr].epr = NoObj,
                                           ![e.end][e.addr].known = FALSE]
                /\ ll_queue' = ll_add(Tail(ll_queue),
                       LLEv(ll_now, "QubitDecoheredEvent", e.end, e.addr,
                            negoc_key(e.addr), ll_mem[e.end][e.addr].pid,
                            NoObj))
    /\ UNCHANGED <<ll_now, pending_negoc, fifo_epr_init, ll_n_epr,
                   ll_crashed, LLOther>>

\* QuantumMemory.decohere_qubit: the timer of an EPR fires; if the memory
\* still holds that EPR it is read and the link layer gets a
\* QubitDecoheredEvent at the current time.
LLDecohereQubit ==
    /\ LLDue("decohere_qubit")
    /\ LET e == Head(ll_queue)
           S == {a \in Addrs : ll_mem[e.end][a].epr = e.epr}
       IN  IF S = {}
           THEN /\ ll_queue' = Tail(ll_queue)
                /\ UNCHANGED ll_mem
           ELSE /\ ll_mem' = [ll_mem EXCEPT ![e.end][min_of(S)].epr = NoObj,
                                           ![e.end][min_of(S)].known = FALSE]
                /\ ll_queue' = ll_add(Tail(ll_queue),
                       LLEv(ll_now, "QubitDecoheredEvent", e.end, e.addr,
                            negoc_key(e.addr), ll_mem[e.end][e.addr].pid,
                            NoObj))
    /\ UNCHANGED <<ll_now, pending_negoc, fifo_epr_init, ll_n_epr,
                   ll_crashed, LLOther>>

\* LinkLayer.handle_event for QubitReleasedEvent and QubitDecoheredEvent
\* (ASYNC timing): the initiator starts a new negotiation for the qubit; the
\* receiver marks the qubit free and serves the oldest waiting epr_init.
LLQubitFreed(kind) ==
    /\ LLDue(kind)
    /\ LET e == Head(ll_queue)
       IN  IF e.end = "init"
           THEN /\ start_negociation(e, Tail(ll_queue))
                /\ UNCHANGED fifo_epr_init
           ELSE LET st == [ll_mem["recv"] EXCEPT ![e.addr].active = NoKey]
                    w  == Head(fifo_epr_init)
                    r  == epr_init_reply(st, w.pid, w.key)
                IN  /\ ll_crashed' = ll_crashed
                    /\ pending_negoc' = pending_negoc
                    /\ IF Len(fifo_epr_init) > 0 /\ r.ok
                       THEN /\ ll_mem' = [ll_mem EXCEPT !["recv"] = r.st]
                            /\ ll_queue' = ll_add(Tail(ll_queue),
                                   LLEv(ll_now + LinkTau, "epr_ok", "init",
                                        w.addr, w.key, w.pid, NoObj))
                            /\ fifo_epr_init' = Tail(fifo_epr_init)
                       ELSE /\ ll_mem' = [ll_mem EXCEPT !["recv"] = st]
                            /\ ll_queue' = Tail(ll_queue)
                            /\ UNCHANGED fifo_epr_init
    /\ UNCHANGED <<ll_now, ll_n_epr, LLOther>>

\* No event is due: the clock moves on by one time slot.
LLAdvance ==
    /\ ll_crashed = ""
    /\ ll_now < LinkEnd
    /\ IF Len(ll_queue) = 0 THEN TRUE ELSE Head(ll_queue).t > ll_now
    /\ ll_now' = ll_now + 1
    /\ UNCHANGED <<ll_queue, ll_mem, pending_negoc, fifo_epr_init, ll_n_epr,
                   ll_crashed, LLOther>>

NextLink ==
    \/ LLStartNegociation
    \/ LLEprInit
    \/ \E k \in AttemptCounts : LLEprOk(k)
    \/ LLDoSuccessfulAttempt
    \/ LLHandleDistribution
    \/ LLQubitEntangled
    \/ \E end \in Ends, addr \in Addrs : LLRelease(end, addr)
    \/ \E end \in Ends, addr \in Addrs : LLSwapUpdate(end, addr)
    \/ LLDecohereQubit
    \/ LLQubitFreed("QubitReleasedEvent")
    \/ LLQubitFreed("QubitDecoheredEvent")
    \/ LLAdvance

SpecLink == InitLink /\ [][NextLink]_vars

\* The same handlers without the clock: the channel delay, the attempt
\* time and the coherence time may have any ratio, so the events of the two
\* ends happen in any order that the handshake allows. ll_queue holds the
\* epr_ok packets on their way to the initiator.
InitNeg ==
    /\ InitPool
    /\ FwIdle
    /\ SyncIdle
    /\ MuxIdle
    /\ CutIdle
    /\ MemIdle
    /\ TimingIdle
    /\ PostLlIdle
    /\ \E pi \in LinkPids, pr \in LinkPids :
           ll_mem = [e \in Ends |-> [a \in Addrs |->
                        [pid |-> IF e = "init" THEN pi[a] ELSE pr[a],
                         epr |-> NoObj, active |-> NoKey, known |-> FALSE]]]
    /\ ll_now = 0
    /\ ll_queue = <<>>
    /\ pending_negoc = {}
    /\ fifo_epr_init = <<>>
    /\ ll_n_epr = 0
    /\ ll_crashed = ""

\* start_negociation for the empty qubit a of the initiator, and
\* handle_negociation (epr_init) when the packet reaches the receiver.
NegEprInit(a) ==
    /\ ll_mem["init"][a].epr = NoObj
    /\ negoc_key(a) \notin pending_negoc
    /\ pending_negoc' = pending_negoc \cup {negoc_key(a)}
    /\ LET e == LLEv(0, "epr_init", "recv", a, negoc_key(a),
                     ll_mem["init"][a].pid, NoObj)
           r == epr_init_reply(ll_mem["recv"], e.pid, e.key)
       IN  /\ ll_mem' = [ll_mem EXCEPT !["recv"] = r.st,
                                       !["init"][a].active = e.key]
           /\ IF r.ok
              THEN /\ ll_queue' = Append(ll_queue,
                          LLEv(0, "epr_ok", "init", a, e.key, e.pid, NoObj))
                   /\ UNCHANGED fifo_epr_init
              ELSE /\ fifo_epr_init' = Append(fifo_epr_init, e)
                   /\ UNCHANGED ll_queue
    /\ UNCHANGED <<ll_now, ll_n_epr, ll_crashed, LLOther>>

\* handle_negociation (epr_ok), do_successful_attempt and
\* handle_distribution: the negotiation ends and both halves are stored,
\* the receiver's in the qubit reserved under the key.
NegEprOk ==
    /\ Len(ll_queue) > 0
    /\ ll_n_epr < MaxLinkEpr
    /\ LET e   == Head(ll_queue)
           idx == write_keyed_slot(ll_mem["recv"], e.pid, e.key)
       IN  /\ idx # NoSlot
           /\ ll_mem' = [ll_mem EXCEPT
                            !["init"][e.addr].epr = ll_n_epr + 1,
                            !["init"][e.addr].known = TRUE,
                            !["recv"][idx].epr = ll_n_epr + 1,
                            !["recv"][idx].known = TRUE]
           /\ pending_negoc' = pending_negoc \ {e.key}
    /\ ll_queue' = Tail(ll_queue)
    /\ ll_n_epr' = ll_n_epr + 1
    /\ UNCHANGED <<ll_now, fifo_epr_init, ll_crashed, LLOther>>

\* The initiator's half at address a is read (swapped, consumed or
\* decohered); its renegotiation is NegEprInit.
NegFreedInit(a) ==
    /\ ll_mem["init"][a].epr # NoObj
    /\ ll_mem' = [ll_mem EXCEPT !["init"][a].epr = NoObj,
                                !["init"][a].known = FALSE]
    /\ UNCHANGED <<ll_now, ll_queue, pending_negoc, fifo_epr_init, ll_n_epr,
                   ll_crashed, LLOther>>

\* The receiver's half at address a is read and the link layer handles the
\* QubitReleasedEvent or QubitDecoheredEvent: the reservation is cleared
\* and check_pending_epr_init looks at the oldest waiting request.
NegFreedRecv(a) ==
    /\ ll_mem["recv"][a].epr # NoObj
    /\ LET st == [ll_mem["recv"] EXCEPT ![a].epr = NoObj,
                                        ![a].known = FALSE,
                                        ![a].active = NoKey]
           w  == Head(fifo_epr_init)
           r  == epr_init_reply(st, w.pid, w.key)
       IN  IF Len(fifo_epr_init) = 0
           THEN /\ ll_mem' = [ll_mem EXCEPT !["recv"] = st]
                /\ UNCHANGED <<ll_queue, fifo_epr_init>>
           ELSE IF r.ok
           THEN /\ ll_mem' = [ll_mem EXCEPT !["recv"] = r.st]
                /\ ll_queue' = Append(ll_queue,
                       LLEv(0, "epr_ok", "init", w.addr, w.key, w.pid, NoObj))
                /\ fifo_epr_init' = Tail(fifo_epr_init)
           ELSE /\ ll_mem' = [ll_mem EXCEPT !["recv"] = st]
                /\ UNCHANGED <<ll_queue, fifo_epr_init>>
    /\ UNCHANGED <<ll_now, pending_negoc, ll_n_epr, ll_crashed, LLOther>>

NextNeg ==
    \/ \E a \in Addrs : NegEprInit(a)
    \/ NegEprOk
    \/ \E a \in Addrs : NegFreedInit(a)
    \/ \E a \in Addrs : NegFreedRecv(a)

\* The reservation handshake of one channel with delays of any length.
SpecNeg == InitNeg /\ [][NextNeg]_vars

\* The link layer in SYNC timing mode: the timing mode signals the phases
\* EXTERNAL and INTERNAL to the link layers of both ends.

\* The length of the EXTERNAL and of the INTERNAL phase, in time slots.
LinkTExt == 9

LinkTInt == 5

\* The phase signals of a run: EXTERNAL at 0, then INTERNAL and EXTERNAL
\* in turn.
LinkSignals ==
    <<[t |-> 0, kind |-> "signal_EXTERNAL"],
      [t |-> LinkTExt, kind |-> "signal_INTERNAL"],
      [t |-> LinkTExt + LinkTInt, kind |-> "signal_EXTERNAL"]>>

\* The phase a signal announces.
phase_of(kind) == IF kind = "signal_EXTERNAL" THEN "EXTERNAL" ELSE "INTERNAL"

\* QuantumMemory.clear: every stored qubit is removed.
memory_clear(st) ==
    [a \in Addrs |-> [st[a] EXCEPT !.epr = NoObj, !.known = FALSE]]

\* handle_active_channel at time t: one start_negociation per qubit of the
\* channel, all of them empty, 1 / attempt_rate apart (less than a time
\* slot), behind the events of the same time.
handle_active_channel(q, st, t) ==
    LET k   == Cardinality({i \in 1 .. Len(q) : q[i].t <= t})
        evs == [a \in 1 .. MemCapacity |->
                   LLEv(t, "start_negociation", "init", a - 1,
                        negoc_key(a - 1), st[a - 1].pid, NoObj)]
    IN  SubSeq(q, 1, k) \o evs \o SubSeq(q, k + 1, Len(q))

\* The channel is installed in SYNC mode: no negotiation starts before the
\* first signal; sync_current_phase starts as EXTERNAL.
InitLinkSync ==
    /\ InitPool
    /\ FwIdle
    /\ SyncIdle
    /\ MuxIdle
    /\ CutIdle
    /\ MemIdle
    /\ TimingIdle
    /\ CtlIdle
    /\ DetIdle
    /\ FibIdle
    /\ QIdle
    /\ \E pi \in LinkPids, pr \in LinkPids :
           ll_mem = [e \in Ends |-> [a \in Addrs |->
                        [pid |-> IF e = "init" THEN pi[a] ELSE pr[a],
                         epr |-> NoObj, active |-> NoKey, known |-> FALSE]]]
    /\ ll_now = 0
    /\ ll_queue = [i \in 1 .. 2 * Len(LinkSignals) |->
                      LLEv(LinkSignals[(i + 1) \div 2].t,
                           LinkSignals[(i + 1) \div 2].kind,
                           IF i % 2 = 1 THEN "init" ELSE "recv",
                           NoAddress, NoKey, NoPid, NoObj)]
    /\ pending_negoc = {}
    /\ fifo_epr_init = <<>>
    /\ ll_n_epr = 0
    /\ ll_crashed = ""
    /\ ll_phase = [e \in Ends |-> "EXTERNAL"]

\* The variables of the other parts.
LLSyncOther == <<poolVars, fwVars, syncVars, muxVars, cutVars, memVars,
                 tmVars, ctlVars, detVars, fibVars, qVars>>

\* handle_sync_signal in SYNC mode: the phase is recorded; on EXTERNAL the
\* memory is cleared and handle_active_channel runs for the active channel.
LLSyncSignal(kind) ==
    /\ LLDue(kind)
    /\ LET e  == Head(ll_queue)
           st == memory_clear(ll_mem[e.end])
       IN  /\ ll_phase' = [ll_phase EXCEPT ![e.end] = phase_of(kind)]
           /\ IF phase_of(kind) = "EXTERNAL"
              THEN /\ ll_mem' = [ll_mem EXCEPT ![e.end] = st]
                   /\ ll_queue' =
                          IF e.end = "init"
                          THEN handle_active_channel(Tail(ll_queue), st,
                                                     ll_now)
                          ELSE Tail(ll_queue)
              ELSE /\ ll_mem' = ll_mem
                   /\ ll_queue' = Tail(ll_queue)
    /\ UNCHANGED <<ll_now, pending_negoc, fifo_epr_init, ll_n_epr,
                   ll_crashed, LLSyncOther>>

\* handle_distribution in SYNC mode: outside the EXTERNAL phase the half
\* is dropped.
LLHandleDistributionSync ==
    IF ll_phase["recv"] # "EXTERNAL"
    THEN /\ LLDue("RecvQubitPacket")
         /\ ll_queue' = Tail(ll_queue)
         /\ UNCHANGED <<ll_now, ll_mem, pending_negoc, fifo_epr_init,
                        ll_n_epr, ll_crashed, LLOther>>
    ELSE LLHandleDistribution

\* handle_event for QubitReleasedEvent and QubitDecoheredEvent in SYNC
\* mode: at the initiator a decohered qubit is an error and a released one
\* waits for the next EXTERNAL phase; the receiver marks the qubit free and
\* serves the oldest waiting epr_init.
LLQubitFreedSync(kind) ==
    /\ LLDue(kind)
    /\ LET e == Head(ll_queue)
       IN  IF e.end = "init"
           THEN /\ ll_crashed' =
                       IF kind = "QubitDecoheredEvent"
                       THEN "Exception: UNEXPECTED -> (t_ext + t_int) too short"
                       ELSE ll_crashed
                /\ ll_queue' = Tail(ll_queue)
                /\ UNCHANGED <<ll_mem, pending_negoc, fifo_epr_init>>
           ELSE LET st == [ll_mem["recv"] EXCEPT ![e.addr].active = NoKey]
                    w  == Head(fifo_epr_init)
                    r  == epr_init_reply(st, w.pid, w.key)
                IN  /\ ll_crashed' = ll_crashed
                    /\ pending_negoc' = pending_negoc
                    /\ IF Len(fifo_epr_init) = 0
                       THEN /\ ll_mem' = [ll_mem EXCEPT !["recv"] = st]
                            /\ ll_queue' = Tail(ll_queue)
                            /\ UNCHANGED fifo_epr_init
                       ELSE IF r.ok
                       THEN /\ ll_mem' = [ll_mem EXCEPT !["recv"] = r.st]
                            /\ ll_queue' = ll_add(Tail(ll_queue),
                                   LLEv(ll_now + LinkTau, "epr_ok", "init",
                                        w.addr, w.key, w.pid, NoObj))
                            /\ fifo_epr_init' = Tail(fifo_epr_init)
                       ELSE /\ ll_mem' = [ll_mem EXCEPT !["recv"] = st]
                            /\ ll_queue' = Tail(ll_queue)
                            /\ UNCHANGED fifo_epr_init
    /\ UNCHANGED <<ll_now, ll_n_epr, LLOther>>

NextLinkSync ==
    \/ \E kind \in {"signal_EXTERNAL", "signal_INTERNAL"} : LLSyncSignal(kind)
    \/ LLStartNegociation
    \/ LLEprInit
    \/ \E k \in AttemptCounts : LLEprOk(k)
    \/ LLDoSuccessfulAttempt
    \/ LLHandleDistributionSync
    \/ LLQubitEntangled
    \/ \E end \in Ends, addr \in Addrs : LLRelease(end, addr)
    \/ LLDecohereQubit
    \/ \E kind \in {"QubitDecoheredEvent", "QubitReleasedEvent"} :
           LLQubitFreedSync(kind)
    \/ LLAdvance

\* One channel in SYNC mode over two EXTERNAL phases.
SpecLinkSync == InitLinkSync /\ [][NextLinkSync]_vars

\* ============================== Part X: the control plane of one node
\* ProactiveRouting.handle_control at node 2, which has a quantum channel,
\* and one memory per channel, to node 1 and to node 3.

\* The node whose forwarder is modelled.
Own == 2

\* The neighbours of Own; the memory of a channel is named by the neighbour.
CtlNeighbors == {1, 3}

\* qubit.pid is None. Path ids are numbered from 0.
PidNone == -1

\* The path ids the controller uses.
CtlPathIds == {0, 1}

\* The route vectors of the control messages: through Own and without Own.
CtlRoutes == {<<1, 2, 3>>, <<1, 3>>}

\* The swap vectors of the control messages.
CtlSwaps == {<<1, 0, 1>>, <<1, 1>>}

\* The m_v vectors of the control messages; <<>> is "not provided".
CtlMv == {<<>>, <<1, 1>>, <<2, 2>>, <<3, 3>>}

\* The control messages: install_path with its instructions (mux "B"),
\* and uninstall_path, which carries the path id only.
CtlMsgs ==
    [cmd : {"install_path"}, path_id : CtlPathIds,
     instructions : [route : CtlRoutes, swap : CtlSwaps, m_v : CtlMv]]
    \cup [cmd : {"uninstall_path"}, path_id : CtlPathIds]

\* Position of a node in a route vector (list.index), 0 if absent.
ctl_index(rt, n) ==
    IF \E i \in 1 .. Len(rt) : rt[i] = n
    THEN CHOOSE i \in 1 .. Len(rt) : rt[i] = n /\ \A j \in 1 .. i - 1 : rt[j] # n
    ELSE 0

\* QuantumMemory.free: the capacity minus the qubits whose pid is truthy.
free(st) ==
    MemCapacity - Cardinality({a \in Addrs : st[a] # PidNone /\ st[a] # 0})

\* QuantumMemory.allocate: the first qubit whose pid is None gets the path
\* id and its address is returned; -1 if there is none.
allocate(st, path_id) ==
    LET S == {a \in Addrs : st[a] = PidNone}
    IN  IF S = {} THEN [st |-> st, ret |-> -1]
        ELSE [st |-> [st EXCEPT ![min_of(S)] = path_id], ret |-> min_of(S)]

\* QuantumMemory.deallocate: the qubit of that address gets pid None.
deallocate(st, address) ==
    IF address \in Addrs
    THEN [st |-> [st EXCEPT ![address] = PidNone], ret |-> TRUE]
    ELSE [st |-> st, ret |-> FALSE]

\* for i in range(n): qubits.append(qmem.allocate(path_id))
RECURSIVE allocate_n(_, _, _)
allocate_n(st, path_id, n) ==
    IF n = 0 THEN [st |-> st, ret |-> <<>>]
    ELSE LET a == allocate(st, path_id)
             r == allocate_n(a.st, path_id, n - 1)
         IN  [st |-> r.st, ret |-> <<a.ret>> \o r.ret]

\* compute_qubit_allocation: the qubits asked of the previous and of the
\* next channel; 0 stands for None.
compute_qubit_allocation(path, m_v, idx) ==
    [prev |-> IF idx > 1 THEN m_v[idx - 1] ELSE 0,
     next |-> IF idx <= Len(m_v) THEN m_v[idx] ELSE 0]

\* The buffer-space allocation of handle_control in one memory (0 for no
\* memory on that side): with m_v, num qubits if num >= free; without m_v,
\* every qubit if none is allocated.
mux_allocate(qp, nb, path_id, has_mv, num) ==
    IF nb = 0 THEN [qp |-> qp, ret |-> <<>>, exc |-> ""]
    ELSE IF has_mv
    THEN IF num = 0 THEN [qp |-> qp, ret |-> <<>>, exc |-> ""]
         ELSE IF num >= free(qp[nb])
         THEN LET r == allocate_n(qp[nb], path_id, num)
              IN  [qp |-> [qp EXCEPT ![nb] = r.st], ret |-> r.ret, exc |-> ""]
         ELSE [qp |-> qp, ret |-> <<>>,
               exc |-> "Exception: Not enough qubits left for this allocation."]
    ELSE IF free(qp[nb]) = MemCapacity
         THEN LET r == allocate_n(qp[nb], path_id, free(qp[nb]))
              IN  [qp |-> [qp EXCEPT ![nb] = r.st], ret |-> r.ret, exc |-> ""]
         ELSE [qp |-> qp, ret |-> <<>>,
               exc |-> "Exception: Memory has allocated qubits"]

\* The result of a handler that raised exc after changing the state so far.
CtlRaised(tb, qp, exc) ==
    [fib |-> tb, qp |-> qp, exc |-> exc, prev |-> <<>>, next |-> <<>>,
     ll_request |-> FALSE]

\* ProactiveRouting.handle_control on the control message msg, with FIB
\* table tb and the qubit allocations qp of the two memories.
handle_control(msg, tb, qp) ==
    IF "instructions" \notin DOMAIN msg
    THEN CtlRaised(tb, qp, "KeyError: 'instructions'")
    ELSE
    LET path_id == msg.path_id
        instructions == msg.instructions
        i  == ctl_index(instructions.route, Own)
        pn == IF i > 1 THEN instructions.route[i - 1] ELSE 0
        nn == IF i > 0 /\ i < Len(instructions.route)
              THEN instructions.route[i + 1] ELSE 0
        has_mv == Len(instructions.m_v) > 0
        num == IF has_mv
               THEN compute_qubit_allocation(instructions.route,
                                             instructions.m_v, i)
               ELSE [prev |-> 0, next |-> 0]
        a1 == mux_allocate(qp, pn, path_id, has_mv, num.prev)
        a2 == mux_allocate(a1.qp, nn, path_id, has_mv, num.next)
    IN  IF i = 0
        THEN CtlRaised(tb, qp, "Exception: Node not found in route vector")
        ELSE IF a1.exc # "" THEN CtlRaised(tb, a1.qp, a1.exc)
        ELSE IF a2.exc # "" THEN CtlRaised(tb, a2.qp, a2.exc)
        ELSE [fib |-> [p \in DOMAIN tb \cup {path_id} |->
                          IF p = path_id
                          THEN [path_vector |-> instructions.route,
                                swap_sequence |-> instructions.swap]
                          ELSE tb[p]],
              qp |-> a2.qp, exc |-> "", prev |-> a1.ret, next |-> a2.ret,
              ll_request |-> nn # 0]

\* No control message was handled yet.
NoCtl == [op |-> "none", path_id |-> PidNone, exc |-> "", ret |-> 0]

\* A node after construction: an empty FIB and no qubit allocated.
InitCtl ==
    /\ InitPool
    /\ FwIdle
    /\ SyncIdle
    /\ MuxIdle
    /\ CutIdle
    /\ MemIdle
    /\ TimingIdle
    /\ LinkIdle
    /\ PostCtlIdle
    /\ fib_table = <<>>
    /\ qubit_pid = [nb \in CtlNeighbors |-> [a \in Addrs |-> PidNone]]
    /\ ctl_last = NoCtl

\* The variables of the other parts.
CtlOther == <<poolVars, fwVars, syncVars, muxVars, cutVars, memVars, tmVars,
              llVars, postCtlVars>>

\* RecvClassicPacketHandler for a packet of the controller.
CtlRecv(msg) ==
    /\ LET r == handle_control(msg, fib_table, qubit_pid)
       IN  /\ fib_table' = r.fib
           /\ qubit_pid' = r.qp
           /\ ctl_last' = [op |-> msg.cmd, path_id |-> msg.path_id,
                           exc |-> r.exc, ret |-> 0]
    /\ UNCHANGED CtlOther

\* A call of QuantumMemory.allocate on the memory of channel nb.
CtlAllocate(nb, path_id) ==
    /\ LET r == allocate(qubit_pid[nb], path_id)
       IN  /\ qubit_pid' = [qubit_pid EXCEPT ![nb] = r.st]
           /\ ctl_last' = [op |-> "allocate", path_id |-> path_id,
                           exc |-> "", ret |-> r.ret]
    /\ UNCHANGED <<fib_table, CtlOther>>

\* A call of QuantumMemory.deallocate on the memory of channel nb.
CtlDeallocate(nb, address) ==
    /\ LET r == deallocate(qubit_pid[nb], address)
       IN  /\ qubit_pid' = [qubit_pid EXCEPT ![nb] = r.st]
           /\ ctl_last' = [op |-> "deallocate", path_id |-> PidNone,
                           exc |-> "", ret |-> IF r.ret THEN 1 ELSE 0]
    /\ UNCHANGED <<fib_table, CtlOther>>

NextCtl ==
    \/ \E msg \in CtlMsgs : CtlRecv(msg)
    \/ \E nb \in CtlNeighbors, p \in CtlPathIds : CtlAllocate(nb, p)
    \/ \E nb \in CtlNeighbors, a \in Addrs : CtlDeallocate(nb, a)

SpecCtl == InitCtl /\ [][NextCtl]_vars

\* ================================== Part XI: the random number streams
\* The three generators the stochastic choices draw from, and two runs of
\* one scenario in one process, each started by set_seed with the same
\* seed. A generator is a linear congruential stream over 0 .. RngMod - 1.

\* The seed of both runs.
DetSeed == 100

\* The number of states of a generator.
RngMod == 16

\* The stochastic choices of a scenario, in event pop order.
ScenarioLen == 3

\* The kinds of stochastic choice: the success of a swap, the attempt count
\* k of skip_ahead_entanglement, a random path or qubit selection.
DrawKinds == {"swap", "geometric", "choice"}

\* The scenarios: which choice the k-th popped event makes.
Scenarios == [1 .. ScenarioLen -> DrawKinds]

\* The state a generator is left in by a draw.
rng_next(s) == (5 * s + 3) % RngMod

\* npr.default_rng(npr.PCG64(seed)): the state is a function of the seed.
rng_seeded(seed) == seed % RngMod

\* The value drawn in state s: swap success with probability 3/4, k in
\* {1, 2}, one of two candidates.
rng_value(kind, s) ==
    IF kind = "swap" THEN (IF s % 4 < 3 THEN 1 ELSE 0)
    ELSE IF kind = "geometric" THEN 1 + (s % 2)
    ELSE s % 2

\* The generator a choice draws from: the swap from mqns.utils.random.rng,
\* skip_ahead_entanglement from the global generator of numpy
\* (np.random.geometric), the selections from the module random
\* (random.choice).
rng_of(kind) ==
    IF kind = "swap" THEN "rng"
    ELSE IF kind = "geometric" THEN "np.random"
    ELSE "random"

\* A process before its first run: every generator in the state the
\* interpreter gave it.
InitDet ==
    /\ InitPool
    /\ FwIdle
    /\ SyncIdle
    /\ MuxIdle
    /\ CutIdle
    /\ MemIdle
    /\ TimingIdle
    /\ LinkIdle
    /\ CtlIdle
    /\ PostDetIdle
    /\ det_scenario \in Scenarios
    /\ det_rng \in [{"rng", "np.random", "random"} -> {0, 7}]
    /\ det_run = 0
    /\ det_pos = 0
    /\ det_decisions = [r \in {1, 2} |-> <<>>]

\* The variables of the other parts.
DetOther == <<poolVars, fwVars, syncVars, muxVars, cutVars, memVars, tmVars,
              llVars, ctlVars, postDetVars>>

\* set_seed(seed) before a run: rng is replaced by a generator seeded with
\* seed; nothing else is touched.
set_seed(seed) ==
    /\ det_run < 2
    /\ det_run = 0 \/ det_pos > ScenarioLen
    /\ det_rng' = [det_rng EXCEPT !["rng"] = rng_seeded(seed)]
    /\ det_run' = det_run + 1
    /\ det_pos' = 1
    /\ UNCHANGED <<det_scenario, det_decisions, DetOther>>

\* The next event of the run is popped and makes its stochastic choice.
DetDraw ==
    /\ det_run > 0
    /\ det_pos <= ScenarioLen
    /\ LET kind == det_scenario[det_pos]
           g    == rng_of(kind)
       IN  /\ det_decisions' = [det_decisions EXCEPT ![det_run] =
                                   Append(@, rng_value(kind, det_rng[g]))]
           /\ det_rng' = [det_rng EXCEPT ![g] = rng_next(@)]
    /\ det_pos' = det_pos + 1
    /\ UNCHANGED <<det_scenario, det_run, DetOther>>

NextDet ==
    \/ set_seed(DetSeed)
    \/ DetDraw

SpecDet == InitDet /\ [][NextDet]_vars

\* ================================== Part XII: the FIB entries as objects
\* The ForwardingInformationBase objects of the nodes of one process, with
\* the dict objects their entries refer to. handle_control calls add_entry
\* without received_swaps, so the entry gets the default value of the
\* parameter, which Python evaluates once, when the function is defined.

\* The nodes whose FIBs are modelled.
FibNodes == {1, 2, 3}

\* The path ids of the entries.
FibPaths == {0, 1}

\* The dict object that is the default value of received_swaps.
DefaultRef == 0

\* The dict objects an entry can refer to: no call of add_entry passes
\* received_swaps, so the default is the only one.
DictRefs == {DefaultRef}

\* The entry does not exist.
NoRef == -1

\* SWAP_UPDATE packets sent in one run.
MaxSent == 2

\* ForwardingInformationBase.add_entry(path_id, ...) as handle_control calls
\* it: "received_swaps" of the new entry is the default dict object. The
\* result gives the reference for the entry and the heap.
add_entry(tb, heap, path_id) ==
    [tb |-> [p \in FibPaths |-> DefaultRef], heap |-> heap]

\* ForwardingInformationBase.update_received_swaps(path_id, node, 1) on the
\* entry whose dict is ref: the dict object is changed in place.
update_received_swaps(heap, ref, node) ==
    [heap EXCEPT ![ref] = @ \cup {node}]

\* entry["received_swaps"] of node n's entry for path p, as a value.
received_swaps_of(n, p) == dict_heap[fib_ref[n][p]]

\* msg["results"] of a packet, as a value.
results_of(m) == dict_heap[m.results]

\* The nodes after construction: empty FIBs, the default dict empty.
InitFib ==
    /\ InitPool
    /\ FwIdle
    /\ SyncIdle
    /\ MuxIdle
    /\ CutIdle
    /\ MemIdle
    /\ TimingIdle
    /\ LinkIdle
    /\ CtlIdle
    /\ DetIdle
    /\ fib_ref = [n \in FibNodes |-> [p \in FibPaths |-> NoRef]]
    /\ dict_heap = [d \in DictRefs |-> {}]
    /\ fib_sent = {}
    /\ PostFibIdle

\* The variables of the other parts.
FibOther == <<poolVars, fwVars, syncVars, muxVars, cutVars, memVars, tmVars,
              llVars, ctlVars, detVars, postFibVars>>

\* handle_control at node n for path p: an entry of that id is deleted,
\* then add_entry.
FibInstall(n, p) ==
    /\ LET r == add_entry(fib_ref, dict_heap, p)
       IN  /\ fib_ref' = [fib_ref EXCEPT ![n][p] = r.tb[p]]
           /\ dict_heap' = r.heap
    /\ UNCHANGED <<fib_sent, FibOther>>

\* eligible() at node n swapping on path p: update_received_swaps with its
\* own name, then two SWAP_UPDATE packets whose "results" is the entry's
\* dict; one packet stands for both.
FibSwap(n, p) ==
    /\ fib_ref[n][p] # NoRef
    /\ Cardinality(fib_sent) < MaxSent
    /\ dict_heap' = update_received_swaps(dict_heap, fib_ref[n][p], n)
    /\ fib_sent' = fib_sent \cup
           {[swapping_node |-> n, path_id |-> p, results |-> fib_ref[n][p]]}
    /\ UNCHANGED <<fib_ref, FibOther>>

NextFib ==
    \/ \E n \in FibNodes, p \in FibPaths : FibInstall(n, p)
    \/ \E n \in FibNodes, p \in FibPaths : FibSwap(n, p)

\* The FIBs of two nodes of one process, installs and swaps in any order.
SpecFib == InitFib /\ [][NextFib]_vars

\* ------------------------------------------------------------ Part XIII
\* The forwarder on a path whose qchannels have several memory qubits each:
\* every node has MemCapacity qubits per route neighbour, so a node can swap
\* several times before a partner handles the first SWAP_UPDATE. Classical
\* channels deliver in order.

\* The path and the swapping order installed on it.
QRoute == <<1, 2, 3, 4>>

QSeq == <<1, 0, 0, 1>>

QNodes == 1 .. Len(QRoute)

QLinks == 1 .. (Len(QRoute) - 1)

\* Elementary EPRs generated on the path in one run.
MaxPairs == 4

\* No SWAP_UPDATE reached its destination in the step.
QNoSU == [node |-> 0, epr |-> {}, cycle |-> 0, held |-> FALSE,
          applied |-> FALSE]

\* A released memory qubit.
QReleased == [state |-> "RELEASE", epr |-> NoEpr]

\* The directed classical channels between route neighbours.
QChans == {c \in QNodes \X QNodes : c[1] - c[2] \in {-1, 1}}

\* The state the handlers work on.
QHandler ==
    [mem |-> q_mem, swapped_self |-> q_swapped_self, chan |-> q_chan,
     crashed |-> q_crashed, applied |-> FALSE]

\* The addresses of the memory of n towards side that hold no EPR.
q_free(m, n, side) == {a \in Addrs : m[<<n, side, a>>].epr = NoEpr}

\* The lowest address of a nonempty set of addresses.
q_first(S) == CHOOSE a \in S : \A b \in S : a <= b

\* QuantumMemory.search_eligible_qubits: the addresses of the qubits that
\* hold data and are ELIGIBLE.
q_search_eligible_qubits(m, n, side) ==
    {a \in Addrs : m[<<n, side, a>>].epr # NoEpr
                   /\ m[<<n, side, a>>].state = "ELIGIBLE"}

\* get_memory_qubit: the memory and address holding an EPR of this name.
q_get_memory_qubit(m, n, name) ==
    {sa \in Sides \X Addrs :
        HasMem(QRoute, n, sa[1]) /\ m[<<n, sa[1], sa[2]>>].epr.name = name}

\* send_swap_update: the packet is put on the channel to the next hop.
q_send(s, n, msg) ==
    [s EXCEPT !.chan[<<n, next_hop(QRoute, n, msg.destination)>>] =
                  Append(@, msg)]

\* eligible() of the qubit at address a of the memory towards side.
q_eligible(s, n, side, a, ok) ==
    IF is_intermediate(QRoute, n)
    THEN LET other == OtherSide(side)
             qs    == q_search_eligible_qubits(s.mem, n, other)
         IN  IF qs = {} THEN s
             ELSE LET b        == q_first(qs)
                      this_epr == s.mem[<<n, side, a>>].epr
                      oth_epr  == s.mem[<<n, other, b>>].epr
                      prev_epr == IF side = "prev" THEN this_epr ELSE oth_epr
                      next_epr == IF side = "prev" THEN oth_epr ELSE this_epr
                      new_epr  == [name |-> prev_epr.name \cup next_epr.name,
                                   src |-> prev_epr.src, dst |-> next_epr.dst]
                      cyc      == s.swapped_self[n] + 1
                      s1 == [s EXCEPT !.swapped_self[n] = cyc,
                                      !.mem[<<n, side, a>>] = QReleased,
                                      !.mem[<<n, other, b>>] = QReleased]
                      pm == [destination |-> prev_epr.src,
                             swapping_node |-> n, partner |-> next_epr.dst,
                             epr |-> prev_epr.name, new_epr |-> new_epr,
                             cycle |-> cyc]
                      nm == [destination |-> next_epr.dst,
                             swapping_node |-> n, partner |-> prev_epr.src,
                             epr |-> next_epr.name, new_epr |-> new_epr,
                             cycle |-> cyc]
                  IN  IF ok THEN q_send(q_send(s1, n, pm), n, nm) ELSE s1
    ELSE [s EXCEPT !.mem[<<n, side, a>>] = QReleased,
                   !.swapped_self[n] = @ + 1]

\* to_purif(), purif() (no purification: to_eligible()), eligible().
q_go_to_purif(s, n, side, a, ok) ==
    q_eligible([s EXCEPT !.mem[<<n, side, a>>].state =
                             to_eligible(to_purif(@))],
               n, side, a, ok)

\* handle_signaling, cmd SWAP_UPDATE, at the destination of the message.
q_su_at_destination(s, n, m, ok) ==
    IF cycle_is_next(m.cycle, s.swapped_self[n])
    THEN LET found == q_get_memory_qubit(s.mem, n, m.epr)
         IN  IF found # {}
             THEN LET sa == CHOOSE x \in found : TRUE
                      s1 == [s EXCEPT !.mem[<<n, sa[1], sa[2]>>].epr =
                                          m.new_epr,
                                      !.applied = TRUE]
                  IN  IF eval_swapping_conditions(QRoute, QSeq, n, m.partner)
                      THEN q_go_to_purif(s1, n, sa[1], sa[2], ok)
                      ELSE s1
             ELSE [s EXCEPT !.crashed = "AttributeError: log.debut"]
    ELSE IF m.cycle > s.swapped_self[n]
         THEN s
         ELSE [s EXCEPT !.crashed = "AttributeError: log.debut"]

\* handle_signaling at a node that is not the destination: forward.
q_su_forward(s, n, m) ==
    IF s.swapped_self[n] >= m.cycle
    THEN q_send(s, n, m)
    ELSE [s EXCEPT !.crashed = "AttributeError: log.debut"]

QCommit(s) ==
    /\ q_mem' = s.mem
    /\ q_swapped_self' = s.swapped_self
    /\ q_chan' = s.chan
    /\ q_crashed' = s.crashed

\* The path installed, the memories empty.
InitQ ==
    /\ InitPool
    /\ FwIdle
    /\ SyncIdle
    /\ MuxIdle
    /\ CutIdle
    /\ MemIdle
    /\ TimingIdle
    /\ LinkIdle
    /\ CtlIdle
    /\ DetIdle
    /\ FibIdle
    /\ PostQIdle
    /\ q_mem = [k \in QNodes \X Sides \X Addrs |-> QReleased]
    /\ q_swapped_self = [n \in QNodes |-> 0]
    /\ q_chan = [c \in QChans |-> <<>>]
    /\ q_ev = {}
    /\ q_etg = [l \in QLinks |-> 0]
    /\ q_crashed = ""
    /\ q_last = QNoSU

\* The variables of the other parts.
QOther == <<poolVars, fwVars, syncVars, muxVars, cutVars, memVars, tmVars,
            llVars, ctlVars, detVars, fibVars, postQVars>>

\* The elementary EPRs generated so far.
QGenerated == q_etg[1] + q_etg[2] + q_etg[3]

\* The link layer delivers an elementary EPR on qchannel l into a free
\* qubit at each end and notifies both forwarders.
QEntangle(l) ==
    /\ q_crashed = ""
    /\ QGenerated < MaxPairs
    /\ q_free(q_mem, l, "next") # {}
    /\ q_free(q_mem, l + 1, "prev") # {}
    /\ LET a   == q_first(q_free(q_mem, l, "next"))
           b   == q_first(q_free(q_mem, l + 1, "prev"))
           epr == [name |-> {<<l, q_etg[l] + 1>>}, src |-> l, dst |-> l + 1]
       IN  /\ q_mem' = [q_mem EXCEPT
                          ![<<l, "next", a>>] =
                              [state |-> "ENTANGLED", epr |-> epr],
                          ![<<l + 1, "prev", b>>] =
                              [state |-> "ENTANGLED", epr |-> epr]]
           /\ q_ev' = q_ev \cup
                  {[node |-> l, side |-> "next", addr |-> a,
                    neighbor |-> l + 1],
                   [node |-> l + 1, side |-> "prev", addr |-> b,
                    neighbor |-> l]}
    /\ q_etg' = [q_etg EXCEPT ![l] = @ + 1]
    /\ q_last' = QNoSU
    /\ UNCHANGED <<q_swapped_self, q_chan, q_crashed, QOther>>

\* handle_event for a QubitEntangledEvent.
QHandleEntangled(ev, ok) ==
    /\ q_crashed = ""
    /\ ev \in q_ev
    /\ q_ev' = q_ev \ {ev}
    /\ QCommit(IF eval_swapping_conditions(QRoute, QSeq, ev.node, ev.neighbor)
               THEN q_go_to_purif(QHandler, ev.node, ev.side, ev.addr, ok)
               ELSE QHandler)
    /\ q_last' = QNoSU
    /\ UNCHANGED <<q_etg, QOther>>

\* The oldest SWAP_UPDATE of a classical channel arrives: handle_signaling.
\* A packet naming an elementary EPR arrives after its recipient handled
\* the QubitEntangledEvent of that EPR.
QRecvSwapUpdate(c, ok) ==
    /\ q_crashed = ""
    /\ Len(q_chan[c]) > 0
    /\ LET m  == Head(q_chan[c])
           n  == c[2]
           s0 == [QHandler EXCEPT !.chan[c] = Tail(@)]
           s1 == IF m.destination = n
                 THEN q_su_at_destination(s0, n, m, ok)
                 ELSE q_su_forward(s0, n, m)
       IN  /\ ~\E ev \in q_ev :
                  ev.node = n
                  /\ q_mem[<<n, ev.side, ev.addr>>].epr.name = m.epr
           /\ QCommit(s1)
           /\ q_last' = IF m.destination = n
                        THEN [node |-> n, epr |-> m.epr, cycle |-> m.cycle,
                              held |-> q_get_memory_qubit(q_mem, n, m.epr)
                                           # {},
                              applied |-> s1.applied]
                        ELSE QNoSU
    /\ UNCHANGED <<q_ev, q_etg, QOther>>

NextQ ==
    \/ \E l \in QLinks : QEntangle(l)
    \/ \E ev \in q_ev, ok \in BOOLEAN : QHandleEntangled(ev, ok)
    \/ \E c \in QChans, ok \in BOOLEAN : QRecvSwapUpdate(c, ok)

\* The forwarders of a four-node path with several qubits per qchannel.
SpecQ == InitQ /\ [][NextQ]_vars

\* ------------------------------------------------- claims about Part I
\* Number of positions of heap h that hold event e.
Occurrences(h, e) == Cardinality({i \in 1 .. Len(h) : h[i] = e})

InHeap(h, e) == \E i \in 1 .. Len(h) : h[i] = e

\* C1: two events accepted with the same time slot are returned by
\* next_event in the order in which they were added: when an event is
\* returned, no event added before it with the same slot is still waiting.
C1_FifoTieBreak ==
    returned # 0 =>
        \A e \in 1 .. Len(events) :
            (InHeap(event_list, e) /\ events[e].t = events[returned].t)
                => e > returned

\* C2: add_event returns False and leaves the heap unchanged exactly when the
\* event's slot is before tc or after te; otherwise it returns True and the
\* heap holds the new event in addition to what it held.
C2_AddEventRejectsExactly ==
    [][Len(events') = Len(events) + 1 =>
        LET id == Len(events')
            t  == events'[id].t
        IN  IF t < tc \/ t > te
            THEN /\ added' = FALSE
                 /\ event_list' = event_list
                 /\ id \notin accepted'
            ELSE /\ added' = TRUE
                 /\ id \in accepted'
                 /\ Len(event_list') = Len(event_list) + 1
                 /\ Occurrences(event_list', id) = 1
                 /\ \A e \in 1 .. Len(events) :
                        Occurrences(event_list', e) = Occurrences(event_list, e)
    ]_vars

\* C2 witness: one event was rejected for being late, one for being past the
\* end, and one was accepted.
C2_Witness ==
    \E i, j, k \in 1 .. Len(events) :
        /\ i \notin accepted /\ events[i].t > te
        /\ j \notin accepted /\ events[j].t < tc
        /\ k \in accepted

\* Every accepted event is waiting in the heap exactly once or was returned
\* exactly once; rejected events are never returned; nothing waiting is
\* earlier than the current slot.
PoolConservation ==
    /\ \A e \in 1 .. Len(events) :
          IF e \in accepted
          THEN Occurrences(event_list, e) + popCount[e] = 1
          ELSE Occurrences(event_list, e) = 0 /\ popCount[e] = 0
    /\ \A i \in 1 .. Len(event_list) : events[event_list[i]].t >= tc

\* C3: after any interleaving of add_event and next_event, every accepted
\* event is returned exactly once (or still waits, once), the returned events
\* have non-decreasing slots, and tc never decreases.
C3_ExactlyOnceInOrder ==
    /\ []PoolConservation
    /\ [][/\ tc' >= tc
          /\ (returned' # 0 /\ popCount' # popCount)
                => events[returned'].t >= tc /\ tc' = events[returned'].t
       ]_vars

\* C3 witness: three accepted events, two of them added out of time order,
\* have all been returned once.
C3_Witness ==
    /\ Cardinality(accepted) >= 3
    /\ event_list = <<>>
    /\ \A e \in accepted : popCount[e] = 1
    /\ \E a, b \in accepted : a < b /\ events[a].t > events[b].t

\* C4: an event canceled while it waits in the heap is never invoked; it is
\* still popped like any other event (it waits or was returned once), and a
\* canceled event stays canceled.
C4_CanceledNeverInvoked ==
    /\ [](\A e \in canceledPending :
            /\ e \notin invoked
            /\ events[e].canceled
            /\ Occurrences(event_list, e) + popCount[e] = 1)
    /\ [][\A e \in 1 .. Len(events) :
            events[e].canceled => events'[e].canceled]_vars

\* C4 witness: a canceled event has just been popped and was skipped, while
\* another event was invoked.
C4_Witness ==
    /\ returned # 0
    /\ returned \in canceledPending
    /\ popCount[returned] = 1
    /\ returned \notin invoked
    /\ invoked # {}

\* ------------------------------------------------ claims about Part II
\* The rank of node n in the installed swap sequence.
Rank(n) == swap_sequence[index(route, n)]

\* The end of EPR e that is not node n.
RemoteEnd(e, n) == IF e.src = n THEN e.dst ELSE e.src

\* Node n holds, in one of its memories, the EPR of this name.
Holds(m, n, name) ==
    \E side \in Sides :
        HasMem(route, n, side) /\ m[<<n, side>>].epr.name = name

\* The step handled, at its destination, a SWAP_UPDATE that names an EPR the
\* node held and whose cycle is the node's swapped_self + 1.
SUFresh ==
    /\ lastSU'.node # 0
    /\ Holds(mem, lastSU'.node, lastSU'.old)
    /\ lastSU'.cycle = swapped_self[lastSU'.node] + 1

\* C5: a qubit enters PURIF/ELIGIBLE (purif() is called for it) only through
\* a QubitEntangledEvent whose neighbour has rank >= own rank or through a
\* SWAP_UPDATE whose new EPR has a remote end of rank >= own rank; and every
\* swap attempt takes two EPRs whose remote ends have rank >= own rank.
C5_RankRule ==
    [][/\ \A n \in Nodes :
            cnt'[n].n_eligible # cnt[n].n_eligible =>
                \/ \E ev \in entangledEv \ entangledEv' :
                        /\ ev.node = n
                        /\ RemoteEnd(mem[<<n, ev.side>>].epr, n) = ev.neighbor
                        /\ Rank(ev.neighbor) >= Rank(n)
                \/ /\ SUFresh
                   /\ lastSU'.node = n
                   /\ Rank(RemoteEnd(lastSU'.epr, n)) >= Rank(n)
       /\ lastSwap'.node # 0 =>
            /\ Rank(RemoteEnd(lastSwap'.prev_epr, lastSwap'.node))
                    >= Rank(lastSwap'.node)
            /\ Rank(RemoteEnd(lastSwap'.next_epr, lastSwap'.node))
                    >= Rank(lastSwap'.node)
    ]_vars

\* A stored EPR whose QubitEntangledEvent was handled and whose qubit the
\* rank rule kept in ENTANGLED.
Blocked(n, side) ==
    /\ n <= Len(route)
    /\ HasMem(route, n, side)
    /\ mem[<<n, side>>].epr # NoEpr
    /\ mem[<<n, side>>].state = "ENTANGLED"
    /\ ~\E ev \in entangledEv : ev.node = n /\ ev.side = side
    /\ Rank(RemoteEnd(mem[<<n, side>>].epr, n)) < Rank(n)

\* C5 witness: a SWAP_UPDATE was just applied whose new partner passes the
\* rank rule, after a swap, while another node holds a qubit that the rule
\* keeps in ENTANGLED.
C5_Witness ==
    /\ crashed = ""
    /\ lastSU.node # 0
    /\ Rank(RemoteEnd(lastSU.epr, lastSU.node)) >= Rank(lastSU.node)
    /\ cnt[lastSU.node].n_eligible > 0
    /\ \E n \in Nodes, side \in Sides : Blocked(n, side)

\* The SWAP_UPDATE packets the step handed to the classical channels.
Sent == msgs' \ msgs

\* EPR e was an input the swapping node n held: it was in one of n's slots
\* before the step, or the step wrote it there from a SWAP_UPDATE.
WasInput(e, n) ==
    \/ \E side \in Sides : HasMem(route, n, side) /\ mem[<<n, side>>].epr = e
    \/ lastSU'.node = n /\ lastSU'.epr = e

\* C6: a successful swap at an intermediate node leaves both of the node's
\* slots empty and both qubits in RELEASE, and sends exactly two SWAP_UPDATE
\* packets, one towards each remote end of the two inputs; each names the
\* input EPR shared with its recipient, names the other remote end as the
\* partner, and carries the same new EPR whose src and dst are the two
\* remote ends.
C6_SuccessfulSwap ==
    [][(lastSwap'.node # 0 /\ lastSwap'.ok) =>
        LET n  == lastSwap'.node
            p  == lastSwap'.prev_epr
            q  == lastSwap'.next_epr
            a  == RemoteEnd(p, n)
            b  == RemoteEnd(q, n)
        IN  /\ is_intermediate(route, n)
            /\ p # NoEpr /\ q # NoEpr /\ p # q
            /\ WasInput(p, n) /\ WasInput(q, n)
            /\ \A side \in Sides :
                   mem'[<<n, side>>] = [state |-> "RELEASE", epr |-> NoEpr]
            /\ Cardinality(Sent) = 2
            /\ \E ma, mb \in Sent :
                   /\ ma.destination = a /\ mb.destination = b
                   /\ ma.at = next_hop(route, n, a)
                   /\ mb.at = next_hop(route, n, b)
                   /\ ma.epr = p.name /\ mb.epr = q.name
                   /\ ma.partner = b /\ mb.partner = a
                   /\ ma.new_epr = mb.new_epr
                   /\ ma.new_epr.src = a /\ ma.new_epr.dst = b
                   /\ ma.new_epr.name \notin {p.name, q.name}
                   /\ ma.swapping_node = n /\ mb.swapping_node = n
    ]_vars

\* C6 witness: a swap has just succeeded at an intermediate node and its two
\* packets are in flight, one to each remote end, one of which is not a
\* neighbour of the swapping node.
C6_Witness ==
    /\ lastSwap.node # 0 /\ lastSwap.ok
    /\ Cardinality(lastSwap.sent) = 2
    /\ lastSwap.sent \subseteq msgs
    /\ \E m \in lastSwap.sent : m.destination # m.at

\* The memory of node n that held the EPR of this name before the step.
SideOf(n, name) ==
    CHOOSE side \in Sides :
        HasMem(route, n, side) /\ mem[<<n, side>>].epr.name = name

\* C7: a SWAP_UPDATE that reaches its destination while the node holds the
\* named EPR and with cycle = swapped_self + 1 puts the new EPR in the slot of
\* the old one and re-evaluates the qubit against the new partner: with a
\* lower-rank partner the qubit keeps its state; otherwise an end node
\* consumes the new EPR, an intermediate node with an eligible qubit in its
\* other memory swaps the two, and any other node keeps the new EPR ELIGIBLE.
C7_SwapUpdateApplied ==
    [][SUFresh =>
        LET n     == lastSU'.node
            e     == lastSU'.epr
            side  == SideOf(n, lastSU'.old)
            other == OtherSide(side)
        IN  /\ crashed' = ""
            /\ e # NoEpr /\ e.name # lastSU'.old
            /\ IF Rank(RemoteEnd(e, n)) < Rank(n)
               THEN /\ mem' = [mem EXCEPT ![<<n, side>>].epr = e]
                    /\ lastSwap' = NoSwap
                    /\ consumed' = consumed
               ELSE IF ~is_intermediate(route, n)
               THEN /\ mem' = [mem EXCEPT ![<<n, side>>] =
                                   [state |-> "RELEASE", epr |-> NoEpr]]
                    /\ consumed' = consumed \cup {[node |-> n, epr |-> e]}
                    /\ [node |-> n, epr |-> e] \notin consumed
                    /\ [node |-> n, side |-> side] \in releasedEv'
               ELSE IF search_eligible_qubits(mem, n, other)
               THEN /\ lastSwap'.node = n
                    /\ {lastSwap'.prev_epr, lastSwap'.next_epr}
                           = {e, mem[<<n, other>>].epr}
                    /\ mem'[<<n, side>>].epr = NoEpr
                    /\ mem'[<<n, other>>].epr = NoEpr
               ELSE /\ mem' = [mem EXCEPT ![<<n, side>>] =
                                   [state |-> "ELIGIBLE", epr |-> e]]
                    /\ lastSwap' = NoSwap
    ]_vars

\* C7 witness: the SWAP_UPDATE just applied at an intermediate node made the
\* node swap the new EPR with the EPR of its other memory.
C7_Witness ==
    /\ lastSU.node # 0
    /\ lastSwap.node = lastSU.node
    /\ lastSwap.ok
    /\ lastSU.epr \in {lastSwap.prev_epr, lastSwap.next_epr}

\* C8: a SWAP_UPDATE that reaches its destination when the node no longer
\* holds the named EPR, or with a cycle other than swapped_self + 1, is
\* dropped silently: the handler raises nothing and changes no memory slot,
\* no qubit state and no FIB entry.
C8_StaleDroppedSilently ==
    [][(lastSU'.node # 0 /\ ~SUFresh) =>
            /\ crashed' = ""
            /\ mem' = mem
            /\ swapped_self' = swapped_self
            /\ received_swaps' = received_swaps
    ]_vars

\* The two end nodes of the installed route.
EndNodes == {route[1], route[Len(route)]}

\* At every end node as many qubits became eligible as were consumed, and no
\* qubit of an end node rests in PURIF or ELIGIBLE.
EndNodesBalanced ==
    \A n \in EndNodes :
        /\ cnt[n].n_eligible = cnt[n].n_consumed
        /\ \A side \in Sides :
               mem[<<n, side>>].state \notin {"PURIF", "ELIGIBLE"}

\* C9: at an end node every qubit that reaches ELIGIBLE is consumed in the
\* same step: the EPR it held is delivered, its slot is empty, the qubit is in
\* RELEASE and a release event for it is pending; so the number of qubits
\* that became eligible at an end node always equals the number consumed.
C9_EndNodeConsumes ==
    /\ []EndNodesBalanced
    /\ [][\A n \in EndNodes :
            cnt'[n].n_eligible # cnt[n].n_eligible =>
                /\ cnt'[n].n_eligible = cnt[n].n_eligible + 1
                /\ cnt'[n].n_consumed = cnt[n].n_consumed + 1
                /\ \E side \in Sides, c \in consumed' \ consumed :
                       /\ HasMem(route, n, side)
                       /\ c.node = n /\ c.epr # NoEpr
                       /\ c.epr \in {mem[<<n, side>>].epr, lastSU'.epr}
                       /\ consumed' = consumed \cup {c}
                       /\ mem'[<<n, side>>] =
                              [state |-> "RELEASE", epr |-> NoEpr]
                       /\ [node |-> n, side |-> side] \in releasedEv'
      ]_vars

\* C9 witness: both end nodes have consumed, one of them an EPR that a
\* SWAP_UPDATE had just put in its slot, and the slot is empty again.
C9_Witness ==
    /\ \A n \in EndNodes : cnt[n].n_consumed > 0
    /\ lastSU.node \in EndNodes
    /\ [node |-> lastSU.node, epr |-> lastSU.epr] \in consumed
    /\ \A side \in Sides : mem[<<lastSU.node, side>>].epr = NoEpr

\* Every packet and every event has been handled.
Quiescent == msgs = {} /\ entangledEv = {} /\ releasedEv = {}

\* C10: when a swap attempt fails, the node releases both input qubits and
\* both remote partners release their halves of the inputs: once every packet
\* and event is handled, no node holds an input of a failed swap, and no EPR
\* made from an input of a failed swap is ever consumed.
C10_FailedSwapReleasesPartners ==
    /\ \A c \in consumed :
           \A f \in failedInputs :
               ~(f \subseteq c.epr.name /\ f # c.epr.name)
    /\ (crashed = "" /\ Quiescent) =>
           \A n \in Nodes, side \in Sides :
               mem[<<n, side>>].epr.name \notin failedInputs

\* The repeaters of the installed route.
Repeaters == {route[i] : i \in 2 .. Len(route) - 1}

\* Every channel got its EPR and every packet and event has been handled.
RunOver ==
    /\ \A l \in 1 .. Len(route) - 1 : etg_count[l] = 1
    /\ Quiescent

\* A SWAP_UPDATE waits at its destination, which has already swapped or
\* consumed in the cycle of the packet: the two swaps were made in parallel.
ParallelPending ==
    \E m \in msgs :
        m.at = m.destination /\ m.cycle <= swapped_self[m.destination]

\* Each repeater swapped once and each end node consumed one EPR, shared by
\* the two end nodes.
OneEndToEnd ==
    /\ \A n \in Repeaters : swapped_self[n] = 1
    /\ \A n \in EndNodes :
           /\ cnt[n].n_consumed = 1
           /\ \E c \in consumed :
                  c.node = n /\ {c.epr.src, c.epr.dst} = EndNodes

\* C11: on the 5-node path with a sequential swap order and ps = 1, under
\* every arrival order of the four elementary EPRs, no handler fails, no
\* repeater swaps twice, no swap is made in parallel with another, the run
\* stops only when every packet is handled, and then each repeater has
\* swapped exactly once and each end node has consumed exactly one
\* end-to-end EPR.
C11_SequentialOrders ==
    /\ crashed = ""
    /\ ~ParallelPending
    /\ \A n \in Repeaters : swapped_self[n] <= 1
    /\ \A n \in EndNodes : cnt[n].n_consumed <= 1
    /\ (~ENABLED NextSeq) => RunOver
    /\ RunOver => OneEndToEnd

\* C11 witness: the balanced order has run to its end: the three repeaters
\* swapped, both end nodes consumed, and every release was handled.
C11_Witness ==
    /\ swap_sequence = <<3, 0, 1, 0, 3>>
    /\ RunOver
    /\ OneEndToEnd
    /\ releasedEv = {}

\* C12: on the 4-node path with swap sequence [1,0,0,1] and ps = 1, under
\* every arrival order of the three elementary EPRs, no handler fails and no
\* repeater swaps twice, whether the two repeaters swap one after the other
\* or both before receiving the other's SWAP_UPDATE; the run stops only when
\* every packet is handled, and then each repeater has swapped exactly once
\* and each end node has consumed exactly one end-to-end EPR.
C12_AsapEveryOrder ==
    /\ crashed = ""
    /\ \A n \in Repeaters : swapped_self[n] <= 1
    /\ \A n \in EndNodes : cnt[n].n_consumed <= 1
    /\ (~ENABLED NextSeq) => RunOver
    /\ RunOver => OneEndToEnd

\* ----------------------------------------------- claims about Part III
\* The counters the scenario reads: EPRs consumed at n1, swaps made at n2,
\* swaps made at n3, EPRs consumed at n4.
SyncCounters ==
    <<cnt[1].n_consumed, swapped_self[2], swapped_self[3], cnt[4].n_consumed>>

\* 1 when a packet sent hops channels after the start of INTERNAL arrives
\* strictly before the end of the cycle, else 0.
InTime(t, hops) == IF t + hops * HopDelay < Cycle THEN 1 ELSE 0

\* The cycle of the arrivals is over and no packet is left in flight.
CycleOver == now >= Cycle /\ phase = "EXTERNAL" /\ msgs = {}

\* C13: under SYNC timing on the 4-node path [2,0,1,2] with ps = 1, no swap
\* and no SWAP_UPDATE is acted on outside an INTERNAL phase or at its end
\* time; n2 swaps the EPRs that arrived in EXTERNAL exactly when INTERNAL
\* begins; n3 swaps, n4 consumes and n1 consumes only when the SWAP_UPDATE
\* that triggers it arrives strictly before the end of INTERNAL (one, two
\* and three channel delays after its start); so the counters of the 10 ms
\* cycle are (1,1,1,1), (0,1,1,1), (0,1,1,0), (0,1,0,0) for EXTERNAL phases
\* of 8.4, 8.9, 9.4 and 9.9 ms.
C13_SyncPhaseGating ==
    LET t == t_ext_of(sequence)
    IN  /\ crashed = ""
        /\ (lastSwap # NoSwap \/ lastSU # NoSU) =>
               phase = "INTERNAL" /\ now < end_time
        /\ lastSwap.node = 2 => now = t
        /\ CycleOver =>
               /\ SyncCounters =
                      <<InTime(t, 3), 1, InTime(t, 1), InTime(t, 2)>>
               /\ t = 84 => SyncCounters = <<1, 1, 1, 1>>
               /\ t = 89 => SyncCounters = <<0, 1, 1, 1>>
               /\ t = 94 => SyncCounters = <<0, 1, 1, 0>>
               /\ t = 99 => SyncCounters = <<0, 1, 0, 0>>

\* The cycle with an EXTERNAL phase of 8.9 ms is over: n4 consumed the
\* end-to-end EPR, n1 was informed too late and still holds its qubit.
C13_Witness ==
    /\ t_ext_of(sequence) = 89
    /\ CycleOver
    /\ SyncCounters = <<0, 1, 1, 1>>
    /\ mem[<<1, "next">>].epr # NoEpr

\* ------------------------------------------------ claims about Part IV
\* The repeater of route rt holds an EPR on both links of its path.
HoldsBothLinks(rt) == etg_count[rt[1]] = 1 /\ etg_count[rt[2]] = 1

\* The name of the EPR that the repeater of route rt makes of its two links.
PathEpr(rt) == {<<rt[1], 1>>, <<rt[2], 1>>}

\* End-to-end EPRs consumed at end node n, over its FIB entries.
ConsumedAt(n) ==
    Cardinality({c \in consumed : Phys(c.node) = n /\
                     \E rt \in RectRoutes : c.epr.name = PathEpr(rt)})

\* C14: with the two paths n1-n2-n4 and n1-n3-n4 installed for one request
\* (swap [1,0,1], ps = 1), only a repeater swaps, and only when it holds an
\* EPR on both links of its own path, the one whose event it handles and an
\* eligible one; its inputs are the EPRs of those two links; every consumed
\* EPR is made of the two links of one path; and once every event and packet
\* is handled, each end node has consumed as many end-to-end EPRs as there
\* are repeaters that hold both of their links.
C14_MultipathSwap ==
    /\ [](/\ crashed = ""
          /\ \A c \in consumed :
                 \E rt \in RectRoutes : c.epr.name = PathEpr(rt)
          /\ lastSwap # NoSwap =>
                 LET rt == RouteOf(lastSwap.node)
                 IN  /\ lastSwap.node = rt[2]
                     /\ HoldsBothLinks(rt)
                     /\ lastSwap.prev_epr.name = {<<rt[1], 1>>}
                     /\ lastSwap.next_epr.name = {<<rt[2], 1>>}
          /\ (entangledEv = {} /\ msgs = {}) =>
                 /\ \A rt \in RectRoutes :
                        swapped_self[rt[2]] =
                            IF HoldsBothLinks(rt) THEN 1 ELSE 0
                 /\ \A n \in {1, 4} :
                        ConsumedAt(n) =
                            Cardinality({rt \in RectRoutes :
                                             HoldsBothLinks(rt)})
                 /\ cnt[1].n_consumed + cnt[5].n_consumed = ConsumedAt(1)
                 /\ cnt[4].n_consumed + cnt[6].n_consumed = ConsumedAt(4))
    /\ [][lastSwap' # NoSwap =>
             \E side \in Sides :
                 /\ mem[<<lastSwap'.node, side>>].state = "ELIGIBLE"
                 /\ mem[<<lastSwap'.node, OtherSide(side)>>].epr # NoEpr]_vars

\* All four channels got an EPR, both repeaters swapped and each end node
\* consumed two end-to-end EPRs, one of each path.
C14_Witness ==
    /\ \A rt \in RectRoutes : HoldsBothLinks(rt) /\ swapped_self[rt[2]] = 1
    /\ entangledEv = {} /\ msgs = {}
    /\ ConsumedAt(1) = 2
    /\ ConsumedAt(4) = 2

\* ------------------------------------------------- claims about Part V
\* Every qchannel got its EPR and every event and message has been handled.
MuxOver == provided = Channels /\ etgEv = {} /\ su = {}

\* cnt.n_consumed of end node n.
NConsumed(n) == Cardinality({c \in e2e : c.node = n})

\* The two end nodes of path p.
PathEnds(p) == {PathVector(p)[1], PathVector(p)[Len(PathVector(p))]}

\* Both bottleneck qchannels bound their EPR to path p.
BottleneckOn(p) == etg_tmp[<<2, 1>>] = {p} /\ etg_tmp[<<1, 3>>] = {p}

\* C15: under dynamic-EPR multiplexing the path of an elementary EPR is
\* selected once, by the endpoint that handles the EPR first, among the
\* paths of its qchannel, and is never changed after; on the dumbbell, once
\* everything is handled, the end nodes of path p have each consumed one EPR
\* that joins them exactly when both bottleneck EPRs were bound to p, and
\* have consumed nothing otherwise, whichever of the edge and the bottleneck
\* EPRs arrive first.
C15_DynamicEprPath ==
    /\ [](scheme = "dynamic" =>
            /\ mux_failed = ""
            /\ \A ch \in Channels :
                   /\ n_select[ch] =
                          IF \E n \in {ch[1], ch[2]} :
                                 qm[<<n, ch>>].state # "RELEASE" /\
                                 [node |-> n, ch |-> ch] \notin etgEv
                          THEN 1
                          ELSE IF etg_tmp[ch] = NoneIds THEN 0 ELSE 1
                   /\ etg_tmp[ch] # NoneIds =>
                          \E p \in qchannel_paths_map(ch) : etg_tmp[ch] = {p}
            /\ MuxOver =>
                   \A p \in PathIds :
                       IF BottleneckOn(p)
                       THEN \A n \in PathEnds(p) :
                                /\ NConsumed(n) = 1
                                /\ \E c \in e2e :
                                       /\ c.node = n
                                       /\ {c.epr.src, c.epr.dst} = PathEnds(p)
                       ELSE \A n \in PathEnds(p) : NConsumed(n) = 0)
    /\ [][scheme = "dynamic" =>
             \A ch \in Channels :
                 etg_tmp[ch] # NoneIds => etg_tmp'[ch] = etg_tmp[ch]]_vars

\* Both bottleneck EPRs were bound to path 1 and n5 and n7 consumed the
\* end-to-end EPR, n4 and n6 none.
C15_Witness ==
    /\ scheme = "dynamic"
    /\ MuxOver
    /\ BottleneckOn(1)
    /\ NConsumed(5) = 1 /\ NConsumed(7) = 1
    /\ NConsumed(4) = 0 /\ NConsumed(6) = 0
    /\ \A ch \in Channels : n_select[ch] = 1

\* The EPRs that memories hold, messages carry or end nodes consumed.
LiveEprs ==
    {qm[q].epr : q \in DOMAIN qm} \cup {m.new_epr : m \in su}
        \cup {c.epr : c \in e2e}

\* C16: under the dynamic-EPR and the statistical scheme, in every
\* successful swap and every merge of parallel swaps the tmp_path_ids of the
\* two combined EPRs are set and intersect, and the new EPR's tmp_path_ids
\* are exactly the intersection; so the tmp_path_ids of an EPR made by swaps
\* are never empty and lie within the paths of every qchannel whose
\* elementary EPR went into it.
C16_TmpPathIdsIntersect ==
    /\ \A r \in swapLog :
           /\ r.a # NoneIds /\ r.b # NoneIds
           /\ r.a \cap r.b # {}
           /\ r.new = r.a \cap r.b
    /\ \A e \in LiveEprs :
           Cardinality(e.name) > 1 =>
               /\ e.tmp # {} /\ e.tmp # NoneIds
               /\ \A ch \in e.name : e.tmp \subseteq qchannel_paths_map(ch)

\* Under the statistical scheme a swap narrowed the candidate paths and a
\* parallel swap was merged.
C16_Witness ==
    /\ scheme = "statistical"
    /\ \E r \in swapLog : r.kind = "swap" /\ r.a # r.b /\ r.new = r.a \cap r.b
    /\ \E r \in swapLog : r.kind = "merge" /\ r.new = r.a \cap r.b

\* ------------------------------------------------ claims about Part VI

\* The qubits whose cut-off deadline is the current time.
Expiring ==
    {q \in DOMAIN cutoff : cutoff[q] # NoCutoff /\ cutoff[q].deadline = now}

\* The node that holds the other half of the EPR of qubit q.
CutPartner(q) ==
    IF mem[q].epr.src = q[1] THEN mem[q].epr.dst ELSE mem[q].epr.src

\* Memory m of node n holds a half of the EPR called name.
HoldsHalf(m, n, name) ==
    \E s \in Sides : m[<<n, s>>].epr # NoEpr /\ m[<<n, s>>].epr.name = name

\* A release event of node n was added in the step.
ReleasedAt(n) ==
    \E s \in Sides : [node |-> n, side |-> s] \in releasedEv' \ releasedEv

\* n_cutoff of node n grows by exactly d primary and e secondary cut-offs.
Counts(n, d, e) ==
    /\ n_cutoff'[n].primary = n_cutoff[n].primary + d
    /\ n_cutoff'[n].secondary = n_cutoff[n].secondary + e

\* The qubit q is removed from its memory and released in the step.
Dropped(q) ==
    /\ mem'[q].epr = NoEpr
    /\ mem'[q].state = "RELEASE"
    /\ [node |-> q[1], side |-> q[2]] \in releasedEv'

\* The deadline of a waiting qubit is the time it became ELIGIBLE plus the
\* wait budget, the qubit is ELIGIBLE and holds an EPR, and the clock never
\* passes the deadline while the qubit waits.
WaitsUntilDeadline ==
    \A q \in DOMAIN cutoff :
        cutoff[q] # NoCutoff =>
            /\ cutoff[q].deadline = cutoff[q].since + WaitBudget
            /\ now <= cutoff[q].deadline
            /\ mem[q].state = "ELIGIBLE"
            /\ mem[q].epr # NoEpr

\* The repeaters of rank 0.
Rank0Repeaters ==
    {n \in Nodes \ EndNodes :
        \E i \in 1 .. Len(route) : route[i] = n /\ swap_sequence[i] = 0}

\* The repeaters of rank 0 that have no neighbour of rank 0.
Rank0Alone ==
    {n \in Rank0Repeaters :
        \A i \in 1 .. Len(route) :
            (i = index(route, n) - 1 \/ i = index(route, n) + 1) =>
                swap_sequence[i] # 0}

\* The statement as the specification has it: every cut-off removes and
\* releases both halves of the EPR and counts one primary cut-off at the
\* node and one secondary at the partner; end nodes count no primary and
\* rank-0 repeaters no secondary cut-off.
C17_AsStated ==
    /\ [](WaitsUntilDeadline)
    /\ [][n_cutoff' # n_cutoff =>
             \E q \in Expiring :
                 LET p == CutPartner(q)
                 IN  /\ Dropped(q)
                     /\ ~HoldsHalf(mem', p, mem[q].epr.name)
                     /\ ReleasedAt(p)
                     /\ Counts(q[1], 1, 0)
                     /\ Counts(p, 0, 1)]_vars
    /\ [](\A n \in EndNodes : n_cutoff[n].primary = 0)
    /\ [](\A n \in Rank0Repeaters : n_cutoff[n].secondary = 0)

\* C17: a qubit that became ELIGIBLE at time t with wait budget b has the
\* deadline t + b and the clock does not pass it while the qubit waits; when
\* it is cut off at the deadline it is removed from memory and released and
\* its node counts one primary cut-off; the partner node's half is removed
\* and released, and the partner counts one secondary cut-off, exactly when
\* the partner still holds a half of the same EPR, and otherwise the partner
\* releases and counts nothing. No other node counts. End nodes never count
\* a primary cut-off, and a rank-0 repeater that has no rank-0 neighbour
\* never counts a secondary one.
C17_WaitTimeCutoff ==
    /\ [](WaitsUntilDeadline)
    /\ [][n_cutoff' # n_cutoff =>
             \E q \in Expiring :
                 LET p == CutPartner(q)
                 IN  /\ Dropped(q)
                     /\ Counts(q[1], 1, 0)
                     /\ ~HoldsHalf(mem', p, mem[q].epr.name)
                     /\ IF HoldsHalf(mem, p, mem[q].epr.name)
                        THEN ReleasedAt(p) /\ Counts(p, 0, 1)
                        ELSE ~ReleasedAt(p) /\ Counts(p, 0, 0)
                     /\ \A n \in Nodes \ {q[1], p} : Counts(n, 0, 0)]_vars
    /\ [](\A n \in EndNodes : n_cutoff[n].primary = 0)
    /\ [](\A n \in Rank0Alone : n_cutoff[n].secondary = 0)

\* On the sequential path the rank-0 repeater n2 waited for the whole
\* budget with the EPR of its link to n3 and was cut off: n2 counts the
\* primary cut-off, n3 the secondary, and both memories are released.
C17_Witness ==
    /\ swap_sequence = <<2, 0, 1, 2>>
    /\ now = 10 + WaitBudget
    /\ n_cutoff[2] = [primary |-> 1, secondary |-> 0]
    /\ n_cutoff[3] = [primary |-> 0, secondary |-> 1]
    /\ mem[<<2, "next">>] = [state |-> "RELEASE", epr |-> NoEpr]
    /\ mem[<<3, "prev">>] = [state |-> "RELEASE", epr |-> NoEpr]
    /\ {[node |-> 2, side |-> "next"], [node |-> 3, side |-> "prev"]}
           \subseteq releasedEv

\* ----------------------------------------------- claims about Part VII

\* C18: no stuck EPR: an EPR written into a memory slot at time t is no
\* longer in that slot once the clock is past t + T_coh; every slot that
\* holds an EPR was written at most T_coh ago.
C18_NoStuckEpr ==
    \A i \in Addrs :
        storage[i].epr # NoObj =>
            /\ storage[i].store_time # NoTime
            /\ sim_tc <= storage[i].store_time + TCoh

\* The decoherence timer of an EPR that nobody read found it in its slot
\* T_coh after the write and removed it.
C18_Witness ==
    /\ last.op = "decohere"
    /\ last.ret # NoSlot
    /\ last.data # NoObj
    /\ sim_tc = last.stored + TCoh
    /\ storage[last.ret].epr = NoObj

\* The slot idx holds an EPR that the key k of a read selects.
key_matches(st, k, idx) ==
    /\ st[idx].epr # NoObj
    /\ \/ k[1] \in {"address", "index"} /\ k[2] = idx
       \/ k[1] = "object" /\ k[2] = st[idx].epr
       \/ k[1] = "name" /\ k[2] = name_of(st[idx].epr)

\* C19: write stores the EPR in the lowest-index empty slot whose path id
\* and address pass the filters (an absent filter passes every slot), at the
\* current time, counts it in the usage and hands one decoherence event for
\* it, due T_coh later, to the simulator, which holds it when it is due
\* within the run; when the memory is full or no empty slot passes, write
\* returns none and changes neither the memory nor the event queue.
C19_MemoryWrite ==
    [][\A obj \in Objs, pid \in {NoPid} \cup MemPids,
          address \in {NoAddress} \cup Addrs :
           MemWrite(obj, pid, address) =>
               LET open == {i \in Addrs :
                               /\ storage[i].epr = NoObj
                               /\ pid # NoPid => storage[i].pid = pid
                               /\ address # NoAddress => i = address}
                   new  == sim_events' \ sim_events
               IN  IF open = {}
                   THEN /\ last'.ret = NoSlot
                        /\ storage' = storage
                        /\ usage' = usage
                        /\ sim_events' = sim_events
                        /\ n_added' = n_added
                   ELSE /\ last'.ret \in open
                        /\ \A j \in open : last'.ret <= j
                        /\ storage' =
                               [storage EXCEPT
                                   ![last'.ret] =
                                       [pid |-> storage[last'.ret].pid,
                                        epr |-> obj,
                                        store_time |-> sim_tc]]
                        /\ usage' = usage + 1
                        /\ n_added' = n_added + 1
                        /\ sim_events \subseteq sim_events'
                        /\ IF sim_tc + TCoh <= MemEnd
                           THEN /\ Cardinality(new) = 1
                                /\ \A ev \in new :
                                       /\ ev.epr = obj
                                       /\ ev.qubit = last'.ret
                                       /\ ev.t = sim_tc + TCoh
                           ELSE new = {}]_vars

\* A write with a path id skipped the empty slot 0 of another path and
\* stored its EPR in slot 1 with a decoherence event, and the next write
\* with the same path id found no slot and returned none.
C19_Witness ==
    /\ last.op = "write"
    /\ last.ret = NoSlot
    /\ storage[0].epr = NoObj
    /\ storage[0].pid = NoPid
    /\ storage[1].epr # NoObj
    /\ storage[1].pid = 1
    /\ usage = 1
    /\ \E ev \in sim_events : ev.epr = storage[1].epr /\ ev.qubit = 1

\* C20, as the specification has it: a read that matches a stored EPR
\* returns it, empties that one slot and leaves the other slots unchanged,
\* and a second read with the same key returns none; a read that matches no
\* stored EPR returns none and leaves the memory and its usage count
\* unchanged.
C20_ReadDestructiveExact ==
    [][\A k \in ReadKeys :
           MemRead(k) =>
               LET hit == {i \in Addrs : key_matches(storage, k, i)}
               IN  IF hit # {}
                   THEN /\ last'.ret \in hit
                        /\ last'.data = storage[last'.ret].epr
                        /\ storage'[last'.ret].epr = NoObj
                        /\ \A j \in Addrs \ {last'.ret} :
                               storage'[j] = storage[j]
                        /\ usage' = usage - 1
                        /\ mem_crashed' = ""
                        /\ LET again == read(storage', usage', k[1], k[2])
                           IN  /\ again.ret = NoSlot
                               /\ again.exc = ""
                               /\ again.storage = storage'
                               /\ again.usage = usage'
                   ELSE /\ last'.ret = NoSlot
                        /\ storage' = storage
                        /\ usage' = usage
                        /\ mem_crashed' = ""]_vars

\* ---------------------------------------------- claims about Part VIII

\* The phase that follows phase p in the cyclic order, given t_rtg.
PhaseAfter(p, t_rtg) ==
    IF p = "EXTERNAL" THEN (IF t_rtg > 0 THEN "ROUTING" ELSE "INTERNAL")
    ELSE IF p = "ROUTING" THEN "INTERNAL"
    ELSE "EXTERNAL"

\* The configured duration of phase p.
PhaseDuration(p) ==
    IF p = "EXTERNAL" THEN timing.t_ext
    ELSE IF p = "ROUTING" THEN timing.t_rtg
    ELSE timing.t_int

\* C21: in SYNC timing the phase signals follow the cyclic order EXTERNAL,
\* ROUTING (only when t_rtg > 0), INTERNAL, EXTERNAL, ...; the first signal
\* is EXTERNAL at the simulator start time, every phase starts exactly at the
\* end time of the previous one and lasts its configured duration, and every
\* node of the network is notified at each transition.
C21_SyncPhaseOrder ==
    /\ [](signalled = NoSignal => now = 0 /\ end_time = 0)
    /\ [](now <= end_time)
    /\ [](signalled # NoSignal =>
              /\ signalled.phase = phase
              /\ end_time = signalled.t + PhaseDuration(phase)
              /\ (phase = "ROUTING" => timing.t_rtg > 0))
    /\ [][signalled' # signalled =>
              /\ signalled'.t = now
              /\ now = end_time
              /\ signalled'.nodes = TimingNodes
              /\ signalled'.phase =
                     IF signalled = NoSignal THEN "EXTERNAL"
                     ELSE PhaseAfter(signalled.phase, timing.t_rtg)]_vars

\* With a ROUTING phase configured the second cycle has reached its ROUTING
\* phase, which started when the second EXTERNAL phase ended.
C21_Witness ==
    /\ timing.t_rtg > 0
    /\ phase = "ROUTING"
    /\ signalled.phase = "ROUTING"
    /\ signalled.nodes = TimingNodes
    /\ signalled.t = 2 * timing.t_ext + timing.t_rtg + timing.t_int

\* ------------------------------------- claims about Part VI, continued
\* The memory, the cut-off counters and the forwarder counters of every
\* node other than n are left as they are by the step.
OnlyAtNode(n) ==
    /\ \A q \in DOMAIN mem : q[1] # n => mem'[q] = mem[q]
    /\ \A k \in Nodes \ {n} : n_cutoff'[k] = n_cutoff[k] /\ cnt'[k] = cnt[k]

\* The events a forwarder handles change its own node only.
ForwarderEventsLocal ==
    /\ \A ev \in entangledEv : CutQubitEntangled(ev) => OnlyAtNode(ev.node)
    /\ \A m \in msgs : CutSwapUpdate(m) => OnlyAtNode(m.at)

\* C25: no event handled at a node changes the memory, the qubit states or
\* the counters of another node in the same step: a QubitEntangledEvent, a
\* SWAP_UPDATE and a cut-off expiry handled at node n leave the qubits and
\* the counters of every other node as they were.
C25_NoCrossNodeMutation ==
    [][/\ ForwarderEventsLocal
       /\ \A n \in Nodes, side \in Sides :
              release_qubit(n, side) => OnlyAtNode(n)]_vars

\* ------------------------------------------------ claims about Part IX
\* The queued events of one kind.
LLQueued(kind) == {i \in 1 .. Len(ll_queue) : ll_queue[i].kind = kind}

C23_InstallUninstallRestores ==
    [][\A msg \in CtlMsgs :
          (/\ msg.cmd = "uninstall_path"
           /\ ctl_last.op = "install_path"
           /\ ctl_last.exc = ""
           /\ ctl_last.path_id = msg.path_id
           /\ CtlRecv(msg))
          => /\ msg.path_id \notin DOMAIN fib_table'
             /\ \A nb \in CtlNeighbors, a \in Addrs :
                    qubit_pid'[nb][a] # msg.path_id]_vars

\* C26: an install_path whose swap vector is not as long as its route is
\* rejected and creates no FIB entry, so every FIB entry of the node has a
\* swap sequence as long as its route, and a route that contains the node.
C26_InstallChecksLengths ==
    \A p \in DOMAIN fib_table :
        /\ Len(fib_table[p].swap_sequence) = Len(fib_table[p].path_vector)
        /\ ctl_index(fib_table[p].path_vector, Own) # 0

\* C28: after any sequence of allocate and deallocate calls, free is the
\* capacity minus the number of qubits bound to a path id, whatever the
\* path ids are (0 included).
C28_FreeCountsBound ==
    \A nb \in CtlNeighbors :
        free(qubit_pid[nb]) =
            MemCapacity
            - Cardinality({a \in Addrs : qubit_pid[nb][a] # PidNone})

\* ------------------------------------------------ claims about Part XI
\* C24: two runs of the same scenario after set_seed with the same seed
\* take the same sequence of stochastic decisions: when the second run is
\* over, its decisions are those of the first run, one by one.
C24_SameSeedSameDecisions ==
    (det_run = 2 /\ det_pos > ScenarioLen)
        => det_decisions[2] = det_decisions[1]

\* ------------------------------------- claims about Part II, continued
\* The swap order lets the end nodes wait for the end-to-end EPR: every
\* repeater has a rank below the rank of the two end nodes, as in [1,0,1] and
\* [1,0,0,1].
EndsHighest ==
    \A i \in 2 .. Len(route) - 1 : swap_sequence[i] < swap_sequence[1]

\* The EPRs that node n delivered to its application.
consumed_at(n) == {c.epr : c \in {d \in consumed : d.node = n}}

\* C27: for a swap order whose end nodes hold the highest rank (the balanced
\* orders are of this kind) and without purification, once every packet and
\* event is handled the two end nodes of the path have consumed the same
\* number of EPRs, and every EPR consumed at one end is consumed at the
\* other end too.
C27_EndsConsumeEqually ==
    (Quiescent /\ EndsHighest)
        => /\ cnt[route[1]].n_consumed = cnt[route[Len(route)]].n_consumed
           /\ consumed_at(route[1]) = consumed_at(route[Len(route)])

\* ------------------------------------ claims about Part IX, continued
\* The QubitDecoheredEvents pool q holds for the qubit at addr of end.
LLDecohered(q, end, addr) ==
    {i \in 1 .. Len(q) : /\ q[i].kind = "QubitDecoheredEvent"
                         /\ q[i].end = end
                         /\ q[i].addr = addr}

\* C29: when the decoherence timer of EPR e on a slot fires and the slot
\* still holds e, the slot is emptied, the forwarder may no longer use the
\* qubit (RELEASE) and one QubitDecoheredEvent for the qubit is scheduled at
\* the current time; when e was read before (consumed, swapped or replaced by a
\* SWAP_UPDATE), the memory and the pool are left as they are but for the
\* timer itself, also when the slot holds another EPR by now.
C29_TimerOnlyForHeldEpr ==
    [][LLDecohereQubit =>
        LET e == Head(ll_queue)
        IN  IF ll_mem[e.end][e.addr].epr = e.epr
            THEN /\ ll_mem' = [ll_mem EXCEPT ![e.end][e.addr].epr = NoObj,
                                            ![e.end][e.addr].known = FALSE]
                 /\ Cardinality(LLDecohered(ll_queue', e.end, e.addr)) =
                        Cardinality(LLDecohered(ll_queue, e.end, e.addr)) + 1
                 /\ Len(ll_queue') = Len(ll_queue)
                 /\ \E i \in LLDecohered(ll_queue', e.end, e.addr) :
                        ll_queue'[i].t = ll_now
            ELSE /\ ll_mem' = ll_mem
                 /\ ll_queue' = Tail(ll_queue)]_vars

\* The timer of an EPR is due while its slot holds another EPR, written by a
\* SWAP_UPDATE, which the forwarder may use.
C29_Witness ==
    /\ LLDue("decohere_qubit")
    /\ LET e == Head(ll_queue)
       IN  /\ ll_mem[e.end][e.addr].epr \notin {NoObj, e.epr}
           /\ ll_mem[e.end][e.addr].known

\* ------------------------------------- claims about Part II, continued
\* The number of hops between two nodes of the route.
Hops(a, b) ==
    IF index(route, a) >= index(route, b)
    THEN index(route, a) - index(route, b)
    ELSE index(route, b) - index(route, a)

\* A SWAP_UPDATE is on its way at a node that is not its destination.
Relaying == \E m \in msgs : m.at # m.destination

\* Packet m has made Hops(swapping node, m.at) hops, all towards its
\* destination: the node it is handed to lies between the swapping node and
\* the destination, the destination included, and it is a forwarded copy
\* exactly when that node is not the swapping node's neighbour.
OnItsWay(m) ==
    /\ Hops(m.swapping_node, m.at) >= 1
    /\ Hops(m.swapping_node, m.at) + Hops(m.at, m.destination) =
           Hops(m.swapping_node, m.destination)
    /\ m.fwd <=> Hops(m.swapping_node, m.at) > 1

\* Node m.at hands packet m on: the copy c replaces m in the channel.
RelayedAs(m, c) ==
    /\ msgs' = (msgs \ {m}) \cup {c}
    /\ c = [m EXCEPT !.at = c.at, !.fwd = TRUE, !.results = c.results]
    /\ Hops(m.at, c.at) = 1
    /\ Hops(c.at, m.destination) = Hops(m.at, m.destination) - 1
    /\ ~c.results.alias
    /\ m.at \in c.results.val
    /\ swapped_self[m.at] >= m.cycle

unbound(qp, nb) == {a \in Addrs : qp[nb][a] = PidNone}

\* The install_path messages with an m_v vector and a route through Own.
BufferSpaceInstalls ==
    {msg \in CtlMsgs :
        /\ "instructions" \in DOMAIN msg
        /\ Len(msg.instructions.m_v) > 0
        /\ ctl_index(msg.instructions.route, Own) # 0}

\* C40: a buffer-space install that asks n qubits of a memory succeeds
\* exactly when n qubits of that memory are bound to no path, and then binds
\* n qubits that were unbound to the path id; otherwise it raises, binds no
\* qubit and records no address -1.
C40_BufferSpaceInstall ==
    \A msg \in BufferSpaceInstalls :
        LET r   == handle_control(msg, fib_table, qubit_pid)
            i   == ctl_index(msg.instructions.route, Own)
            num == compute_qubit_allocation(msg.instructions.route,
                                            msg.instructions.m_v, i)
            pn  == msg.instructions.route[i - 1]
            nn  == msg.instructions.route[i + 1]
        IN  /\ r.exc = ""
                 <=> /\ num.prev <= Cardinality(unbound(qubit_pid, pn))
                     /\ num.next <= Cardinality(unbound(qubit_pid, nn))
            /\ r.exc = ""
                 => /\ Cardinality(unbound(qubit_pid, pn) \ unbound(r.qp, pn))
                           = num.prev
                    /\ Cardinality(unbound(qubit_pid, nn) \ unbound(r.qp, nn))
                           = num.next
                    /\ \A k \in 1 .. Len(r.prev) : r.prev[k] # -1
                    /\ \A k \in 1 .. Len(r.next) : r.next[k] # -1
            /\ r.exc # "" => r.qp = qubit_pid

\* ----------------------------------------------- claims about Part XII
\* C37: update_received_swaps for path p at node n changes the
\* received_swaps of that entry only: the received_swaps of every other
\* entry, at this node or at another, stays as it was, an entry added by
\* add_entry starts with empty received_swaps, and the results of a
\* SWAP_UPDATE already sent stay as they were sent.
C37_FibEntriesIndependent ==
    [][/\ \A n \in FibNodes, p \in FibPaths :
              FibSwap(n, p)
                  => /\ \A k \in FibNodes, q \in FibPaths :
                            (<<k, q>> # <<n, p>> /\ fib_ref[k][q] # NoRef)
                                => received_swaps_of(k, q)' =
                                       received_swaps_of(k, q)
                     /\ \A m \in fib_sent : results_of(m)' = results_of(m)
       /\ \A n \in FibNodes, p \in FibPaths :
              FibInstall(n, p) => received_swaps_of(n, p)' = {}]_vars

\* ------------------------------------ claims about Part VII, continued
\* C35: after any sequence of write, read and decoherence operations, those
\* that fail included, no EPR is held by two slots, the usage count is the
\* number of occupied slots, and 0 <= count <= capacity.
C35_UsageCountsOccupied ==
    /\ \A i \in Addrs, j \in Addrs :
           (i # j /\ storage[i].epr # NoObj) => storage[i].epr # storage[j].epr
    /\ usage = Cardinality({i \in Addrs : storage[i].epr # NoObj})
    /\ usage >= 0
    /\ usage <= MemCapacity

\* ------------------------------------- claims about Part II, continued
\* The EPR joins the two end nodes of the route.
EndToEnd(epr) == {epr.src, epr.dst} = EndNodes

\* C39: when the two end nodes hold the strictly highest rank of the swap
\* sequence, every EPR that was consumed was consumed at an end node and
\* joins the two end nodes; and an EPR stored at an end node that does not
\* join them leaves its slot only by a SWAP_UPDATE for it handled at that
\* node or by decoherence, never by consumption.
C39_EndNodeConsumesEndToEnd ==
    /\ [](EndsHighest
            => \A c \in consumed : c.node \in EndNodes /\ EndToEnd(c.epr))
    /\ [][EndsHighest
            => \A n \in EndNodes, side \in Sides :
                   (/\ HasMem(route, n, side)
                    /\ mem[<<n, side>>].epr # NoEpr
                    /\ ~EndToEnd(mem[<<n, side>>].epr)
                    /\ mem'[<<n, side>>].epr # mem[<<n, side>>].epr)
                       => \/ Decohere(n, side)
                          \/ \E m \in msgs, ok \in BOOLEAN :
                                 /\ RecvSwapUpdate(m, ok)
                                 /\ m.at = n
                                 /\ m.destination = n
                                 /\ m.epr = mem[<<n, side>>].epr.name]_vars

\* An end node of such a path holds an EPR with a repeater, eligible for
\* nothing, while the other end node has consumed an end-to-end EPR.
C39_Witness ==
    /\ EndsHighest
    /\ crashed = ""
    /\ \E n \in EndNodes, side \in Sides :
           /\ HasMem(route, n, side)
           /\ mem[<<n, side>>].epr # NoEpr
           /\ ~EndToEnd(mem[<<n, side>>].epr)
           /\ mem[<<n, side>>].state = "ENTANGLED"
    /\ \E c \in consumed : EndToEnd(c.epr)

\* ------------------------------------- claims about Part XIII
\* The SWAP_UPDATE at the head of channel c is for the node it arrives at,
\* and that node holds the EPR the packet names.
ReachesHolder(c) ==
    /\ Head(q_chan[c]).destination = c[2]
    /\ q_get_memory_qubit(q_mem, c[2], Head(q_chan[c]).epr) # {}

\* C36: cycle counters never desynchronise: whenever a SWAP_UPDATE reaches
\* its destination while the destination still holds the named EPR, the
\* cycle of the message is the destination's swapped_self + 1 and the update
\* is applied, also when a qchannel has several qubits and the swapping node
\* swaps several times before the destination swaps or consumes.
C36_CyclesNeverDesynchronise ==
    [][\A c \in QChans, ok \in BOOLEAN :
          (QRecvSwapUpdate(c, ok) /\ ReachesHolder(c))
              => /\ Head(q_chan[c]).cycle = q_swapped_self[c[2]] + 1
                 /\ q_last'.applied]_vars

\* ------------------------------------ claims about Part IX, timers
\* The other end of the channel.
OtherEnd(end) == IF end = "init" THEN "recv" ELSE "init"

\* The memory of the end holds the EPR.
LLHolds(end, epr) == \E a \in Addrs : ll_mem[end][a].epr = epr

\* The decoherence timers of the EPR at the end that are due now.
LLTimerDue(end, epr) ==
    {i \in 1 .. Len(ll_queue) : /\ ll_queue[i].kind = "decohere_qubit"
                                /\ ll_queue[i].end = end
                                /\ ll_queue[i].epr = epr
                                /\ ll_queue[i].t = ll_now}

\* C33: the decoherence timers of the two halves of an elementary EPR fire
\* at the same simulation time: when the timer of one half removes it while
\* the other end still holds its half, the timer of that half is due at the
\* same time, so no state of a later time has one half held and the other
\* removed by decoherence.
C33_HalvesDecohereTogether ==
    [][LLDecohereQubit =>
        LET e == Head(ll_queue)
        IN  (LLHolds(e.end, e.epr) /\ LLHolds(OtherEnd(e.end), e.epr))
                => LLTimerDue(OtherEnd(e.end), e.epr) # {}]_vars

\* ------------------------------ claims about Part IX, renegotiation
\* The queued epr_init packets of a key.
LLEprInits(q, key) ==
    {i \in 1 .. Len(q) : q[i].kind = "epr_init" /\ q[i].key = key}

\* The negotiation of a key is under way: its epr_init travels or waits at
\* the receiver, or its epr_ok travels back.
LLNegotiating(key) ==
    Cardinality(LLEprInits(ll_queue, key))
    + Cardinality({i \in 1 .. Len(fifo_epr_init) :
                       fifo_epr_init[i].key = key})
    + Cardinality({i \in 1 .. Len(ll_queue) :
                       ll_queue[i].kind = "epr_ok" /\ ll_queue[i].key = key})

LLEprOks(key) ==
    {i \in 1 .. Len(ll_queue) :
        ll_queue[i].kind = "epr_ok" /\ ll_queue[i].key = key}

\* The waiting epr_init at position i of fifo_epr_init is blocked for good:
\* a qubit of its path is free at the receiver, and the requests before it
\* include one for whose path the receiver has no qubit at all, which
\* therefore stays at the head whatever is freed later.
LLBlocked(st, fifo, i) ==
    /\ search_path_qubits(st, fifo[i].pid) # {}
    /\ \E j \in 1 .. (i - 1) : \A a \in Addrs : st[a].pid # fifo[j].pid

\* C38: every epr_init is answered with epr_ok at most once (an answered
\* request no longer waits, and no key has two epr_ok under way), and when
\* a freed qubit is reported at the receiver, no waiting request whose path
\* has a free qubit stays blocked behind a request whose path has none.
C38_EprInitAnswered ==
    /\ [](\A a \in Addrs :
            /\ Cardinality(LLEprOks(negoc_key(a))) <= 1
            /\ LLEprOks(negoc_key(a)) # {}
                   => \A i \in 1 .. Len(fifo_epr_init) :
                          fifo_epr_init[i].key # negoc_key(a))
    /\ [][\A a \in Addrs :
            NegFreedRecv(a)
                => \A i \in 1 .. Len(fifo_epr_init') :
                       ~LLBlocked(ll_mem'["recv"], fifo_epr_init', i)]_vars

\* ------------------------------- claims about Part VI, release events
\* The release events in the pool that point to qubit q.
CutEventsOf(evs, q) == {e \in evs : e.qubit = q}

\* The qubit q waited with a cut-off window and is taken in the step: it
\* is swapped, consumed or released.
CutTaken(q) ==
    /\ cutoff[q] # NoCutoff
    /\ mem[q].state = "ELIGIBLE"
    /\ mem'[q].state = "RELEASE"

\* C34: once a qubit with an armed wait-time cut-off is taken, its release
\* event is canceled and its cut-off window cleared; every release event in
\* the pool belongs to a qubit that still waits with the EPR the event was
\* set for, so a release event never fires on a qubit that was swapped or
\* on an EPR stored later; and every qubit that is swapped passes
\* filter_swap_candidate, no waiting qubit having a deadline in the past.
C34_CutoffCanceledOnSwap ==
    /\ [](/\ crashed # "ValueError: memory.read(must=True)"
          /\ \A e \in cut_events :
                 /\ cutoff[e.qubit] # NoCutoff
                 /\ cutoff[e.qubit].deadline = e.t
                 /\ now <= e.t
                 /\ mem[e.qubit].state = "ELIGIBLE"
                 /\ mem[e.qubit].epr.name = e.epr
          /\ \A q \in DOMAIN cutoff :
                 cutoff[q] # NoCutoff
                     => Cardinality(CutEventsOf(cut_events, q)) = 1)
    /\ [][\A q \in DOMAIN cutoff :
            CutTaken(q) => /\ cutoff'[q] = NoCutoff
                           /\ CutEventsOf(cut_events', q) = {}]_vars
    /\ [][\A q \in DOMAIN cutoff :
            (mem[q].state = "ELIGIBLE" /\ mem[q].epr # NoEpr
             /\ lastSwap'.node = q[1] /\ mem'[q].epr = NoEpr)
                => filter_swap_candidate(cutoff[q], now)]_vars
    /\ [][\A n \in Nodes, side \in Sides :
            release_qubit(n, side)
                => \E e \in CutEventsOf(cut_events, <<n, side>>) :
                       /\ e.t = now
                       /\ mem[<<n, side>>].epr.name = e.epr
                       /\ mem[<<n, side>>].state = "ELIGIBLE"
                       /\ cutoff[<<n, side>>].since = now - WaitBudget]_vars

\* A qubit that waited since the early arrival with an armed cut-off was
\* swapped at the late arrival, before its deadline; its release event is
\* gone.
C34_Witness ==
    /\ lastSwap.node \in Nodes
    /\ lastSwap.ok
    /\ now = 5007
    /\ \A s \in Sides :
           /\ cutoff[<<lastSwap.node, s>>] = NoCutoff
           /\ CutEventsOf(cut_events, <<lastSwap.node, s>>) = {}

\* ------------------------------ claims about Part IX in SYNC mode
\* The start_negociation events of the initiator's qubit a due at time t.
LLStarts(q, a, t) ==
    {i \in 1 .. Len(q) : /\ q[i].kind = "start_negociation"
                         /\ q[i].end = "init"
                         /\ q[i].addr = a
                         /\ q[i].t = t}

\* C32: in SYNC mode a half-EPR that arrives while the receiver's phase is
\* not EXTERNAL is discarded: the memory is unchanged and no
\* QubitEntangledEvent is added; on every EXTERNAL signal all stored qubits
\* of the node are removed and, at the initiator of the active channel, one
\* start_negociation per qubit of the channel is scheduled for the current
\* time, none of which fails as already initiated.
C32_SyncPhaseGating ==
    /\ [](ll_crashed # "Exception: negociation already init")
    /\ [][(LLHandleDistributionSync /\ ll_phase["recv"] # "EXTERNAL")
            => /\ ll_mem' = ll_mem
               /\ ll_queue' = Tail(ll_queue)
               /\ ll_crashed' = ll_crashed]_vars
    /\ [][LLSyncSignal("signal_EXTERNAL") =>
            LET end == Head(ll_queue).end
            IN  /\ ll_phase'[end] = "EXTERNAL"
                /\ \A a \in Addrs : ll_mem'[end][a].epr = NoObj
                /\ ll_mem'[OtherEnd(end)] = ll_mem[OtherEnd(end)]
                /\ \A a \in Addrs :
                       Cardinality(LLStarts(ll_queue', a, ll_now)) =
                           Cardinality(LLStarts(ll_queue, a, ll_now))
                           + IF end = "init" THEN 1 ELSE 0
                /\ Len(ll_queue') = Len(ll_queue) - 1
                       + IF end = "init" THEN MemCapacity ELSE 0]_vars
    /\ [][LLSyncSignal("signal_INTERNAL") =>
            /\ ll_mem' = ll_mem
            /\ ll_queue' = Tail(ll_queue)]_vars

=============================================================================
